---- MODULE Spec2Model ----
(***************************************************************************)
(* Incremental ingest of a PDF corpus into a vector index (Chroma) and a   *)
(* parent document store (SQLite), as implemented by populate_database.py. *)
(*                                                                         *)
(* A text is a sequence of tokens.  A page of a PDF is given as the        *)
(* sequence of parent texts the parent splitter cuts it into, so that the  *)
(* external splitters are modelled by their results: the parent splitter   *)
(* yields the parent texts of a page in order, the child splitter yields   *)
(* one child text per token of a parent text.                             *)
(***************************************************************************)
EXTENDS Integers, Sequences, FiniteSets, TLC

\* ------------------------------------------------------------------ bounds

\* number of runs of main() in one behaviour
MaxRuns == 3
\* number of successive revisions a file on disk goes through
NVersions == 3
\* chunk_size of add_documents_to_store, scaled down from its default of 500
BatchSize == 2
\* the pure-function specifications: longest candidate list
MaxCand == 3
\* SpecSplit: most pages of a loaded document
MaxPages == 3
\* SpecBatch: longest list of chunks to add, and largest chunk_size
MaxChunks == 4
MaxBatch == 3
\* SpecChat: most queries answered by the chain in one session
MaxTurns == 3
\* SpecRemote: latest modification time of a file, local or remote
MaxTime == 2

\* Python's None where a string is expected
None == "None"
\* metadata.get("page") of a document that has no page number
NoPage == -1
\* source_chunk_idx of the parent pass (None)
NoIdx == -1
\* no digest: what get_document_hash_from_store returns for an unknown path
NoHash == <<"None">>

Min(a, b) == IF a < b THEN a ELSE b

\* os.walk(path): the .pdf files in the order in which main() visits them
Files == <<"A.pdf", "B.pdf">>

Paths == {Files[i] : i \in 1..Len(Files)}

\* the files that another process rewrites while the corpus is in use
Rewritten == {"A.pdf"}

\* What PyPDFLoader and the parent splitter make of revision v of a file: the
\* pages in order, each page the sequence of its parent texts.  Revision 2
\* moves a parent to the next page, revision 3 restores the bytes of
\* revision 1, revision 4 is one parent of three children, revision 5 changes
\* the text of one of them.
Content(v) ==
    CASE v = 1 -> << << <<1>>, <<2>> >>, << <<3>> >> >>
      [] v = 2 -> << << <<1>> >>, << <<2>>, <<3>> >> >>
      [] v = 3 -> << << <<1>>, <<2>> >>, << <<3>> >> >>
      [] v = 4 -> << << <<1, 2, 4>> >> >>
      [] v = 5 -> << << <<1, 3, 4>> >> >>
      [] v = 6 -> << << <<1>> >> >>
      [] OTHER -> << >>

\* CHILD_CHUNK_SIZE of env: 0 disables child splitting
ChildSizes == {0, 1}

\* ---------------------------------------------------------- pure functions

\* get_file_hash: SHA-1 of the bytes of the file (collision-free), for a file
\* at revision v
get_file_hash(v) == <<"sha1", Content(v)>>

\* generate_hash: SHA-256 of the text (collision-free)
generate_hash(text) == <<"sha256", text>>

\* A langchain Document: page_content and the metadata keys the program uses.
Doc(text, source, page, id, hash, parent) ==
    [page_content |-> text, source |-> source, page |-> page,
     id |-> id, hash |-> hash, parent_id |-> parent]

\* load_documents: one Document per page, page numbers from 0
load_documents(path, v) ==
    [i \in 1..Len(Content(v)) |->
        Doc(Content(v)[i], path, i - 1, None, NoHash, None)]

RECURSIVE Flatten(_)
Flatten(ss) == IF ss = <<>> THEN <<>> ELSE Head(ss) \o Flatten(Tail(ss))

\* RecursiveCharacterTextSplitter(chunk_size=parent_chunk_size).split_documents:
\* every piece of every document in order, each with a copy of the metadata
parent_split_documents(documents) ==
    Flatten([i \in 1..Len(documents) |->
        [j \in 1..Len(documents[i].page_content) |->
            [documents[i] EXCEPT !.page_content = documents[i].page_content[j]]]])

\* RecursiveCharacterTextSplitter(chunk_size=child_chunk_size).split_documents([document])
child_split_documents(document) ==
    [j \in 1..Len(document.page_content) |->
        [document EXCEPT !.page_content = <<document.page_content[j]>>]]

\* a mutant of PageOrZero: a missing page number is printed as it is
PageAsIs(page) == page

\* f"{page or 0}"
PageOrZero(page) == IF page = NoPage THEN 0 ELSE page

\* a mutant of current_page_id: the index of the pass is left out of the key
current_page_id_without_idx(document, source_chunk_idx) ==
    document.source \o ":" \o ToString(PageOrZero(document.page))

\* a mutant of current_page_id: the source is left out of the key
current_page_id_without_source(document, source_chunk_idx) ==
    (IF source_chunk_idx # NoIdx THEN ToString(source_chunk_idx) ELSE "")
    \o ":" \o ToString(PageOrZero(document.page))

\* lines 308-314: the page key of a document
current_page_id(document, source_chunk_idx) ==
    (IF source_chunk_idx # NoIdx
        THEN document.source \o ":" \o ToString(source_chunk_idx)
        ELSE document.source)
    \o ":" \o ToString(PageOrZero(document.page))

\* the loop of generate_documents_with_metadata from document n on, with the
\* accumulator (last_page_id, current_chunk_index) left by document n-1
RECURSIVE GenLoop(_, _, _, _, _)
GenLoop(documents, source_chunk_idx, n, last_page_id, current_chunk_index) ==
    IF n > Len(documents) THEN <<>>
    ELSE LET key == current_page_id(documents[n], source_chunk_idx)
             idx == IF key = last_page_id THEN current_chunk_index + 1 ELSE 0
             d   == [documents[n] EXCEPT
                        !.id = key \o ":" \o ToString(idx),
                        !.hash = generate_hash(documents[n].page_content)]
         IN <<d>> \o GenLoop(documents, source_chunk_idx, n + 1, key, idx)

generate_documents_with_metadata(documents, source_chunk_idx) ==
    GenLoop(documents, source_chunk_idx, 1, None, 0)

\* a mutant of SubDocumentsOf: the children keep the id and the hash that the
\* child splitter copied from the metadata of the parent
SubDocumentsInheriting(document, idx) ==
    LET subs == child_split_documents(document)
    IN [k \in 1..Len(subs) |-> [subs[k] EXCEPT !.parent_id = document.id]]

\* the children of parent number idx (0-based) of new_documents
SubDocumentsOf(document, idx) ==
    LET subs == generate_documents_with_metadata(child_split_documents(document), idx)
    IN [k \in 1..Len(subs) |-> [subs[k] EXCEPT !.parent_id = document.id]]

\* split_documents: (parents, children)
split_documents(documents, child_chunk_size) ==
    LET new_documents ==
            generate_documents_with_metadata(parent_split_documents(documents), NoIdx)
        sub_documents ==
            IF child_chunk_size > 0
            THEN Flatten([i \in 1..Len(new_documents) |->
                            SubDocumentsOf(new_documents[i], i - 1)])
            ELSE <<>>
    IN <<new_documents, sub_documents>>

\* range(0, n, step) of Python for step > 0; no element for step < 0 (n >= 0)
RangeStarts(n, step) ==
    IF step > 0 THEN {i \in 0..(n - 1) : i % step = 0} ELSE {}

\* a mutant of chunk_list: every batch runs to the end of the list
chunk_list_to_the_end(lst, chunk_size) ==
    LET n == Cardinality(RangeStarts(Len(lst), chunk_size))
    IN [b \in 1..n |-> SubSeq(lst, (b - 1) * chunk_size + 1, Len(lst))]

\* chunk_list: [lst[i:i + chunk_size] for i in range(0, len(lst), chunk_size)]
\* (chunk_size = 0 raises ValueError and is not in the domain of this operator)
chunk_list(lst, chunk_size) ==
    LET n == Cardinality(RangeStarts(Len(lst), chunk_size))
    IN [b \in 1..n |->
          SubSeq(lst, (b - 1) * chunk_size + 1, Min(b * chunk_size, Len(lst)))]

\* ------------------------------------------------------------------ stores

\* a store with no key
EmptyStore == [k \in {} |-> None]

\* Sqlitestore.mget for one key: [db[key] for key in keys if key in db.keys()]
mget(db, key) == IF key \in DOMAIN db THEN <<db[key]>> ELSE <<>>

\* db[key] = value
Put(db, key, value) ==
    [k \in DOMAIN db \cup {key} |-> IF k = key THEN value ELSE db[k]]

\* Sqlitestore.mset: db[key] = value for every pair, in order (a later pair
\* for the same key wins)
RECURSIVE mset(_, _)
mset(db, key_value_pairs) ==
    IF key_value_pairs = <<>> THEN db
    ELSE LET kv == Head(key_value_pairs)
         IN mset(Put(db, kv[1], kv[2]), Tail(key_value_pairs))

\* a mutant of get_document_hash_from_store: the first digest of the table is
\* returned, whatever the path
get_any_document_hash(store, file_path) ==
    IF DOMAIN store # {} THEN store[CHOOSE k \in DOMAIN store : TRUE] ELSE NoHash

\* get_document_hash_from_store
get_document_hash_from_store(store, file_path) ==
    LET file_hashes == mget(store, file_path)
    IN IF file_hashes # <<>> THEN file_hashes[1] ELSE NoHash

\* vectorstore.add_documents(chunk_group, ids=[chunk.metadata["id"] ...]):
\* every chunk is stored under its id, replacing what the id held
RECURSIVE add_documents(_, _)
add_documents(vectorstore, chunk_group) ==
    IF chunk_group = <<>> THEN vectorstore
    ELSE add_documents(Put(vectorstore, Head(chunk_group).id, Head(chunk_group)),
                       Tail(chunk_group))

\* a mutant of Classify: a stored chunk is never looked at again
ClassifyByIdOnly(document, existing_ids, vectorstore) ==
    IF document.id \notin existing_ids THEN "new" ELSE "unchanged"

\* get_documents_to_add_or_update, lines 255-260: what becomes of one document
Classify(document, existing_ids, vectorstore) ==
    IF document.id \notin existing_ids THEN "new"
    ELSE IF vectorstore[document.id].hash # document.hash THEN "updated"
    ELSE "unchanged"

\* a mutant of Collect: the document is put in front
CollectInFront(list, document) == <<document>> \o list

\* lines 256 and 260: list.append(document)
Collect(list, document) == Append(list, document)

\* the loop of get_documents_to_add_or_update from document n on
RECURSIVE DiffLoop(_, _, _, _, _, _)
DiffLoop(documents, existing_ids, vectorstore, n, new_documents, updated_documents) ==
    IF n > Len(documents) THEN <<new_documents, updated_documents>>
    ELSE LET document == documents[n]
             class == Classify(document, existing_ids, vectorstore)
         IN DiffLoop(documents, existing_ids, vectorstore, n + 1,
                     IF class = "new" THEN Collect(new_documents, document)
                                      ELSE new_documents,
                     IF class = "updated" THEN Collect(updated_documents, document)
                                          ELSE updated_documents)

\* get_documents_to_add_or_update: (new, updated)
get_documents_to_add_or_update(documents, existing_ids, vectorstore) ==
    DiffLoop(documents, existing_ids, vectorstore, 1, <<>>, <<>>)

\* ------------------------------------------------------------------- state

VARIABLES
    disk,              \* file path -> the revision of the file on disk
    document_hashes,   \* the table DOCUMENT_HASHES_TABLE_NAME: file path -> digest
    docstore,          \* the table DOCSTORE_TABLE_NAME: parent id -> parent chunk
    chroma,            \* the vector index: chunk id -> chunk
    child_chunk_size,  \* CHILD_CHUNK_SIZE
    chunk_size,        \* add_documents_to_store: chunk_size
    pc,                \* where main() is
    fi,                \* position of the file of the current iteration in Files
    documents,         \* main: documents
    docs,              \* main: docs
    sub_docs,          \* main: sub_docs
    existing_ids,      \* add_documents_to_store: existing_ids
    new_chunks,        \* add_documents_to_store: new_chunks
    updated_chunks,    \* add_documents_to_store: updated_chunks
    batch_idx,         \* add_or_update_documents_to_vectorstore: idx, from 1
    store_ops,         \* history, this file: the calls of the two stores made by
                       \* add_documents_to_store, in order
    split_before,      \* history: the call of split_documents before the last one
    chat_history,      \* chat_rag.py, interactive_query_loop: chat_history
    query,             \* interactive_query_loop: query (the line read, stripped)
    chat_pc,           \* where interactive_query_loop is
    shown,             \* what the loop printed last
    chain_calls,       \* history: the calls of rag_chain.invoke, in order
    since_reset,       \* history: the number of those calls since the last reset
    remote_check,      \* download_docs.py: a call of is_remote_file_updated
    exit_flag,         \* download_docs.py: exit_flag is set
    futures,           \* download_docs: pdf number -> its task in the pool
    directory,         \* the files under download_path: path -> blocks it holds
    download_pc,       \* where download_docs is
    retrieval,         \* query_rag.py: a call of retrieve_relevant_docs
    engines,           \* populate_database.py run by several processes at once:
                       \* of: process -> its file and its local variables;
                       \* history: the stores at the start, and whether steps
                       \* of the processes have interleaved
    nRuns,             \* history: number of runs of main() started
    runs,              \* history: the previous run and the current (or last) run,
                       \* each with the disk it started on and how it ended
    seen,              \* history, this run: what line 31-32 read for each file
    loaded,            \* history, this run: the content load_documents read
    ingested,          \* history: the content whose chunks were last written in full
    calls              \* history, this run: store calls made for each file

stores == <<document_hashes, docstore, chroma>>
locals == <<documents, docs, sub_docs, existing_ids, new_chunks, updated_chunks,
            batch_idx, store_ops>>
ghosts == <<nRuns, runs, seen, loaded, ingested, calls>>
chat_rag == <<chat_history, query, chat_pc, shown, chain_calls, since_reset>>
downloader == <<exit_flag, futures, directory, download_pc>>
other_programs == <<chat_rag, remote_check, engines, downloader, retrieval>>
vars == <<disk, stores, child_chunk_size, chunk_size, other_programs, pc, fi, locals, ghosts,
          split_before>>

NoCalls == [get |-> 0, add |-> 0, mset |-> 0]

\* no call of split_documents before the last one
NoSplit == [called |-> FALSE, documents |-> <<>>, docs |-> <<>>, sub_docs |-> <<>>]

\* nothing printed yet
NothingShown == [kind |-> "nothing", lines |-> <<>>]

\* no call of is_remote_file_updated
NoRemoteCheck ==
    [exists |-> FALSE, local_mtime |-> 0, utc_offset |-> 0,
     has_last_modified |-> FALSE, last_modified |-> 0,
     has_size |-> FALSE, size |-> 0, local_file_size |-> 0, returned |-> "nothing"]

\* no call of retrieve_relevant_docs
NoRetrieval ==
    [questions |-> <<>>, retriever |-> <<>>, pc |-> "off", n |-> 1,
     relevant_docs |-> <<>>, source_ids |-> {}, source_pages |-> <<>>]

\* download_docs is not running and retrieve_relevant_docs is not called
InitDownloaderOff ==
    /\ exit_flag = FALSE
    /\ futures = <<>>
    /\ directory = [k \in {} |-> 0]
    /\ download_pc = [pc |-> "off", next |-> 1, yielded |-> {}]
    /\ retrieval = NoRetrieval

\* chat_rag.py and download_docs.py are not running, and populate_database.py
\* runs in this process only
InitOtherPrograms ==
    /\ chat_history = <<>>
    /\ query = ""
    /\ chat_pc = "off"
    /\ shown = NothingShown
    /\ chain_calls = <<>>
    /\ since_reset = 0
    /\ remote_check = NoRemoteCheck
    /\ engines = <<>>
    /\ InitDownloaderOff

\* the ids of a list of chunks, in order
Ids(chunks) == [i \in 1..Len(chunks) |-> chunks[i].id]

\* the file of the current iteration
file_path == Files[fi]

\* the run in progress (or the last one)
Run == runs[Len(runs)]

Init ==
    /\ disk = [f \in Paths |-> 1]
    /\ document_hashes = EmptyStore
    /\ docstore = EmptyStore
    /\ chroma = EmptyStore
    /\ child_chunk_size \in ChildSizes
    /\ chunk_size = BatchSize
    /\ pc = "idle"
    /\ fi = 1
    /\ documents = <<>> /\ docs = <<>> /\ sub_docs = <<>> /\ existing_ids = {}
    /\ new_chunks = <<>> /\ updated_chunks = <<>> /\ batch_idx = 1
    /\ store_ops = <<>>
    /\ split_before = NoSplit
    /\ InitOtherPrograms
    /\ nRuns = 0
    /\ runs = <<>>
    /\ seen = EmptyStore
    /\ loaded = EmptyStore
    /\ ingested = EmptyStore
    /\ calls = [f \in Paths |-> NoCalls]

ClearLocals ==
    /\ documents' = <<>> /\ docs' = <<>> /\ sub_docs' = <<>> /\ existing_ids' = {}
    /\ new_chunks' = <<>> /\ updated_chunks' = <<>> /\ batch_idx' = 1
    /\ store_ops' = <<>>

\* the file the next step of main() reads from disk, if it reads one
ReadsNext ==
    IF pc \in {"examine", "load", "add_hash"} /\ fi <= Len(Files)
    THEN {file_path} ELSE {}

\* Another process replaces a file of the corpus by its next revision.  Only
\* the moments that main() can tell apart are kept: between two runs, and
\* right before main() reads the file.
EditFile(f) ==
    /\ f \in Rewritten
    /\ disk[f] < NVersions
    /\ pc \in {"idle", "done", "aborted"} \/ f \in ReadsNext
    /\ disk' = [disk EXCEPT ![f] = @ + 1]
    /\ UNCHANGED <<stores, child_chunk_size, chunk_size, other_programs, split_before, pc, fi, locals, ghosts>>

\* a mutant of ClearsFirst: the flag is read the wrong way round
ClearsFirstInverted(reset) == ~reset

\* line 21: if args.reset
ClearsFirst(reset) == reset

\* main() is started: lines 20-23
StartRun(reset) ==
    /\ pc \in {"idle", "done", "aborted"}
    /\ nRuns < MaxRuns
    /\ nRuns' = nRuns + 1
    /\ runs' = Append(IF runs = <<>> THEN <<>> ELSE <<Run>>, [reset |-> reset, status |-> "running",
                              disk |-> disk, fail_kind |-> None,
                              fail_file |-> None, fail_pc |-> None])
    /\ pc' = IF ClearsFirst(reset) THEN "clear_chroma" ELSE "examine"
    /\ fi' = 1
    /\ ClearLocals
    /\ seen' = EmptyStore
    /\ loaded' = EmptyStore
    /\ calls' = [f \in Paths |-> NoCalls]
    /\ UNCHANGED <<disk, stores, child_chunk_size, chunk_size, other_programs, split_before, ingested>>

\* clear_database, lines 334-335: shutil.rmtree(CHROMA_PATH)
ClearChroma ==
    /\ pc = "clear_chroma"
    /\ chroma' = EmptyStore
    /\ pc' = "clear_docstore"
    /\ UNCHANGED <<disk, document_hashes, docstore, child_chunk_size, chunk_size, other_programs, split_before, fi,
                   locals, ghosts>>

\* clear_database, lines 336-337: os.remove(DOCSTORE_PATH), the file that
\* holds both the parent table and the digest table
ClearDocstore ==
    /\ pc = "clear_docstore"
    /\ docstore' = EmptyStore
    /\ document_hashes' = EmptyStore
    /\ pc' = "examine"
    /\ UNCHANGED <<disk, chroma, child_chunk_size, chunk_size, other_programs, split_before, fi, locals, ghosts>>

\* an exception leaves main(): nothing catches it
Raise(kind) ==
    /\ pc' = "aborted"
    /\ runs' = [runs EXCEPT ![Len(runs)] =
                    [@ EXCEPT !.status = "aborted", !.fail_kind = kind,
                              !.fail_file = file_path, !.fail_pc = pc]]

\* a mutant of ShouldSkip: a file is skipped as soon as some digest is cached
ShouldSkipIfCached(local_file_hash, document_hash) == document_hash # NoHash

\* line 34: if local_file_hash == document_hash
ShouldSkip(local_file_hash, document_hash) == local_file_hash = document_hash

\* lines 31-36: the digest of the file is compared with the cached digest
Examine ==
    /\ pc = "examine"
    /\ fi <= Len(Files)
    /\ LET local_file_hash == get_file_hash(disk[file_path])
           document_hash == get_document_hash_from_store(document_hashes, file_path)
       IN /\ seen' = Put(seen, file_path,
                           [local_file_hash |-> local_file_hash,
                            document_hash |-> document_hash])
          /\ IF ShouldSkip(local_file_hash, document_hash)
             THEN pc' = "examine" /\ fi' = fi + 1
             ELSE pc' = "load" /\ fi' = fi
    /\ UNCHANGED <<disk, stores, child_chunk_size, chunk_size, other_programs, split_before, locals,
                   nRuns, runs, loaded, ingested, calls>>

\* the loop of line 26 is exhausted
Finish ==
    /\ pc = "examine"
    /\ fi > Len(Files)
    /\ pc' = "done"
    /\ runs' = [runs EXCEPT ![Len(runs)] = [@ EXCEPT !.status = "done"]]
    /\ UNCHANGED <<disk, stores, child_chunk_size, chunk_size, other_programs, split_before, fi, locals,
                   nRuns, seen, loaded, ingested, calls>>

\* lines 42-45: load_documents and split_documents
Load ==
    /\ pc = "load"
    /\ documents' = load_documents(file_path, disk[file_path])
    /\ LET split == split_documents(documents', child_chunk_size)
       IN docs' = split[1] /\ sub_docs' = split[2]
    /\ loaded' = Put(loaded, file_path, disk[file_path])
    /\ pc' = "mset"
    /\ UNCHANGED <<disk, stores, child_chunk_size, chunk_size, other_programs, split_before, fi,
                   existing_ids, new_chunks, updated_chunks, batch_idx, store_ops,
                   nRuns, runs, seen, ingested, calls>>

\* line 131: the loader raises on an unreadable file
LoadFail ==
    /\ pc = "load"
    /\ Raise("load")
    /\ UNCHANGED <<disk, stores, child_chunk_size, chunk_size, other_programs, split_before, fi, locals,
                   nRuns, seen, loaded, ingested, calls>>

\* a mutant of vectorstore_documents: the children, also when there are none
vectorstore_documents_children == sub_docs

\* add_documents_to_store, line 206
vectorstore_documents == IF sub_docs # <<>> THEN sub_docs ELSE docs

\* a mutant of ParentPairs: the last parent is left out
ParentPairsButLast(documents_) ==
    [i \in 1..(Len(documents_) - 1) |-> <<documents_[i].id, documents_[i]>>]

\* line 210: list(zip([doc.metadata["id"] for doc in documents], documents))
ParentPairs(documents_) ==
    [i \in 1..Len(documents_) |-> <<documents_[i].id, documents_[i]>>]

\* add_documents_to_store, lines 209-210: the parents go to the document store
WriteParents ==
    /\ pc = "mset"
    /\ IF sub_docs # <<>>
       THEN /\ docstore' = mset(docstore, ParentPairs(docs))
            /\ calls' = [calls EXCEPT ![file_path].mset = @ + 1]
            /\ store_ops' = Append(store_ops, <<"mset", Ids(docs)>>)
       ELSE UNCHANGED <<docstore, calls, store_ops>>
    /\ pc' = "get_ids"
    /\ UNCHANGED <<disk, document_hashes, chroma, child_chunk_size, chunk_size, other_programs,
                   split_before, fi, documents, docs, sub_docs, existing_ids,
                   new_chunks, updated_chunks, batch_idx,
                   nRuns, runs, seen, loaded, ingested>>

\* add_documents_to_store, line 212: the ids the vector index holds
GetIds ==
    /\ pc = "get_ids"
    /\ existing_ids' = DOMAIN chroma
    /\ calls' = [calls EXCEPT ![file_path].get = @ + 1]
    /\ store_ops' = Append(store_ops, <<"get_ids", <<>>>>)
    /\ pc' = "diff"
    /\ UNCHANGED <<disk, stores, child_chunk_size, chunk_size, other_programs, split_before, fi,
                   documents, docs, sub_docs, new_chunks, updated_chunks, batch_idx,
                   nRuns, runs, seen, loaded, ingested>>

\* a mutant of AfterDiff: the updated chunks are looked up once more after the
\* new ones have been written
AfterDiffRereads(new, updated) ==
    IF new # <<>> THEN "add_new"
    ELSE IF updated # <<>> /\ pc = "add_new" THEN "diff"
    ELSE IF updated # <<>> THEN "add_updated" ELSE "add_hash"

\* where add_documents_to_store goes after the diff, or after the new chunks
AfterDiff(new, updated) ==
    IF new # <<>> THEN "add_new"
    ELSE IF updated # <<>> THEN "add_updated" ELSE "add_hash"

\* line 258: the candidates for which vectorstore.get(ids=[id]) is called
Lookups ==
    LET Known(document) == document.id \in existing_ids
    IN SelectSeq(vectorstore_documents, Known)

\* add_documents_to_store, line 215
Diff ==
    /\ pc = "diff"
    /\ LET r == get_documents_to_add_or_update(vectorstore_documents,
                                               existing_ids, chroma)
       IN /\ new_chunks' = r[1]
          /\ updated_chunks' = r[2]
          /\ pc' = AfterDiff(r[1], r[2])
    /\ calls' = [calls EXCEPT ![file_path].get = @ + Len(Lookups)]
    /\ store_ops' = store_ops \o [i \in 1..Len(Lookups) |-> <<"get", <<Lookups[i].id>>>>]
    /\ batch_idx' = 1
    /\ UNCHANGED <<disk, stores, child_chunk_size, chunk_size, other_programs, split_before, fi,
                   documents, docs, sub_docs, existing_ids,
                   nRuns, runs, seen, loaded, ingested>>

\* lines 212 and 258: a read of the vector index raises
ReadFail ==
    /\ pc \in {"get_ids", "diff"}
    /\ Raise("read")
    /\ UNCHANGED <<disk, stores, child_chunk_size, chunk_size, other_programs, split_before, fi, locals,
                   nRuns, seen, loaded, ingested, calls>>

\* the batches of the call of add_or_update_documents_to_vectorstore in progress
Batches ==
    chunk_list(IF pc = "add_new" THEN new_chunks ELSE updated_chunks, chunk_size)

\* add_or_update_documents_to_vectorstore, line 278: one batch is written
AddBatch ==
    /\ pc \in {"add_new", "add_updated"}
    /\ batch_idx <= Len(Batches)
    /\ chroma' = add_documents(chroma, Batches[batch_idx])
    /\ calls' = [calls EXCEPT ![file_path].add = @ + 1]
    /\ store_ops' = Append(store_ops, <<pc, Ids(Batches[batch_idx])>>)
    /\ IF batch_idx < Len(Batches)
       THEN pc' = pc /\ batch_idx' = batch_idx + 1
       ELSE /\ batch_idx' = 1
            /\ pc' = IF pc = "add_new" THEN AfterDiff(<<>>, updated_chunks)
                     ELSE "add_hash"
    /\ UNCHANGED <<disk, document_hashes, docstore, child_chunk_size, chunk_size, other_programs,
                   split_before, fi, documents, docs, sub_docs, existing_ids,
                   new_chunks, updated_chunks, nRuns, runs, seen, loaded, ingested>>

\* line 278: the write of a batch raises, nothing of the batch is stored
WriteFail ==
    /\ pc \in {"add_new", "add_updated"}
    /\ batch_idx <= Len(Batches)
    /\ Raise("write")
    /\ UNCHANGED <<disk, stores, child_chunk_size, chunk_size, other_programs, split_before, fi, locals,
                   nRuns, seen, loaded, ingested, calls>>

\* add_document_hash, line 50 and lines 69-72: the digest of the file as it
\* is on disk now is cached
AddDocumentHash ==
    /\ pc = "add_hash"
    /\ document_hashes' = mset(document_hashes,
                               << <<file_path, get_file_hash(disk[file_path])>> >>)
    /\ ingested' = Put(ingested, file_path, loaded[file_path])
    /\ pc' = "examine"
    /\ fi' = fi + 1
    /\ ClearLocals
    /\ UNCHANGED <<disk, docstore, chroma, child_chunk_size, chunk_size, other_programs, split_before,
                   nRuns, runs, seen, loaded, calls>>

Next ==
    \/ \E f \in Paths : EditFile(f)
    \/ \E reset \in BOOLEAN : StartRun(reset)
    \/ ClearChroma
    \/ ClearDocstore
    \/ Examine
    \/ Finish
    \/ Load
    \/ LoadFail
    \/ WriteParents
    \/ GetIds
    \/ Diff
    \/ ReadFail
    \/ AddBatch
    \/ WriteFail
    \/ AddDocumentHash

Spec == Init /\ [][Next]_vars

\* ------------------------------------ the diff on arbitrary inputs (SpecDiff)

CandTexts == {<<1>>, <<2>>}

CandIds == {"A.pdf:0:0", "A.pdf:0:1"}

\* candidate chunks as generate_documents_with_metadata leaves them
CandDocs ==
    {Doc(t, "A.pdf", 0, id, generate_hash(t), None) : t \in CandTexts, id \in CandIds}

\* candidate lists, the same id more than once included
CandLists == UNION {[1..n -> CandDocs] : n \in 0..MaxCand}

\* stored chunks: with the hash of their text, or stored without a hash
StoredDocs ==
    {Doc(t, "A.pdf", 0, id, h, None) :
        t \in CandTexts, id \in CandIds, h \in {generate_hash(t1) : t1 \in CandTexts} \cup {NoHash}}

\* the states of the vector index over CandIds
IndexStates ==
    UNION {{m \in [S -> StoredDocs] : \A id \in S : m[id].id = id} : S \in SUBSET CandIds}

\* add_documents_to_store is entered at line 212 with any candidate list and
\* any state of the vector index
InitDiff ==
    /\ disk = [f \in Paths |-> 1]
    /\ document_hashes = EmptyStore
    /\ docstore = EmptyStore
    /\ chroma \in IndexStates
    /\ child_chunk_size \in ChildSizes
    /\ chunk_size = BatchSize
    /\ pc = "get_ids"
    /\ fi = 1
    /\ documents = <<>>
    /\ store_ops = <<>>
    /\ split_before = NoSplit
    /\ InitOtherPrograms
    /\ \E cands \in CandLists :
          IF child_chunk_size > 0
          THEN docs = <<>> /\ sub_docs = cands
          ELSE docs = cands /\ sub_docs = <<>>
    /\ existing_ids = {}
    /\ new_chunks = <<>> /\ updated_chunks = <<>> /\ batch_idx = 1
    /\ nRuns = 1
    /\ runs = <<[reset |-> FALSE, status |-> "running", disk |-> disk,
                 fail_kind |-> None, fail_file |-> None, fail_pc |-> None]>>
    /\ seen = EmptyStore
    /\ loaded = EmptyStore
    /\ ingested = EmptyStore
    /\ calls = [f \in Paths |-> NoCalls]

NextDiff ==
    \/ GetIds
    \/ Diff

SpecDiff == InitDiff /\ [][NextDiff]_vars

\* ----------------------------- split_documents on arbitrary inputs (SpecSplit)

\* metadata "page" of a loaded page: a page number, or none
PageNumbers == {NoPage, 0, 1}

\* what the parent splitter makes of a page: one parent with one child, two
\* parents with one child each, one parent with two children
PageContents == {<< <<1>> >>, << <<1>>, <<2>> >>, << <<1, 2>> >>}

\* the Documents a loader can hand to split_documents
LoadedPages ==
    {Doc(c, "A.pdf", p, None, NoHash, None) : c \in PageContents, p \in PageNumbers}

\* lists of loaded pages, in any order of their page numbers
DocumentLists == UNION {[1..n -> LoadedPages] : n \in 0..MaxPages}

\* main() is at line 45 with any loaded document
InitSplit ==
    /\ disk = [f \in Paths |-> 1]
    /\ document_hashes = EmptyStore
    /\ docstore = EmptyStore
    /\ chroma = EmptyStore
    /\ child_chunk_size \in ChildSizes
    /\ chunk_size = BatchSize
    /\ pc = "split"
    /\ fi = 1
    /\ documents \in DocumentLists
    /\ docs = <<>> /\ sub_docs = <<>> /\ existing_ids = {}
    /\ new_chunks = <<>> /\ updated_chunks = <<>> /\ batch_idx = 1
    /\ store_ops = <<>>
    /\ split_before = NoSplit
    /\ InitOtherPrograms
    /\ nRuns = 1
    /\ runs = <<[reset |-> FALSE, status |-> "running", disk |-> disk,
                 fail_kind |-> None, fail_file |-> None, fail_pc |-> None]>>
    /\ seen = EmptyStore
    /\ loaded = EmptyStore
    /\ ingested = EmptyStore
    /\ calls = [f \in Paths |-> NoCalls]

\* a mutant of SplitDocuments: the parent pass starts with the page key and the
\* counter that the pass of the call before left behind
SplitDocumentsCarryingOver ==
    /\ pc = "split"
    /\ LET before == split_before.docs
           new_documents ==
               IF before = <<>>
               THEN generate_documents_with_metadata(
                        parent_split_documents(documents), NoIdx)
               ELSE GenLoop(parent_split_documents(documents), NoIdx, 1,
                            current_page_id(before[Len(before)], NoIdx), Len(before))
       IN /\ docs' = new_documents
          /\ sub_docs' = IF child_chunk_size > 0
                         THEN Flatten([i \in 1..Len(new_documents) |->
                                         SubDocumentsOf(new_documents[i], i - 1)])
                         ELSE <<>>
    /\ pc' = "split_done"
    /\ UNCHANGED <<disk, stores, child_chunk_size, chunk_size, other_programs, split_before, fi,
                   documents, existing_ids, new_chunks, updated_chunks, batch_idx,
                   store_ops, ghosts>>

\* line 45: docs, sub_docs = split_documents(documents, ...)
SplitDocuments ==
    /\ pc = "split"
    /\ LET split == split_documents(documents, child_chunk_size)
       IN docs' = split[1] /\ sub_docs' = split[2]
    /\ pc' = "split_done"
    /\ UNCHANGED <<disk, stores, child_chunk_size, chunk_size, other_programs, split_before, fi,
                   documents, existing_ids, new_chunks, updated_chunks, batch_idx,
                   store_ops, ghosts>>

\* the call that has returned becomes the call before
Returned ==
    [called |-> TRUE, documents |-> documents, docs |-> docs, sub_docs |-> sub_docs]

\* lines 42-45 once more, on the same loaded document
SplitAgain ==
    /\ pc = "split_done"
    /\ ~split_before.called
    /\ split_before' = Returned
    /\ docs' = <<>> /\ sub_docs' = <<>>
    /\ pc' = "split"
    /\ UNCHANGED <<disk, stores, child_chunk_size, chunk_size, other_programs, fi,
                   documents, existing_ids, new_chunks, updated_chunks, batch_idx,
                   store_ops, ghosts>>

\* lines 42-45 once more, on a revision of the document in which one page is
\* cut into another number of chunks
ChangePage(i, c) ==
    /\ pc = "split_done"
    /\ ~split_before.called
    /\ i \in 1..Len(documents)
    /\ c # documents[i].page_content
    /\ split_before' = Returned
    /\ documents' = [documents EXCEPT ![i].page_content = c]
    /\ docs' = <<>> /\ sub_docs' = <<>>
    /\ pc' = "split"
    /\ UNCHANGED <<disk, stores, child_chunk_size, chunk_size, other_programs, fi,
                   existing_ids, new_chunks, updated_chunks, batch_idx,
                   store_ops, ghosts>>

NextSplit ==
    \/ SplitDocuments
    \/ SplitAgain
    \/ \E i \in 1..MaxPages, c \in PageContents : ChangePage(i, c)

SpecSplit == InitSplit /\ [][NextSplit]_vars

\* ------------------ add_or_update_documents_to_vectorstore alone (SpecBatch)

\* chunk number k of a file of one page
PoolChunk(k, text) ==
    Doc(text, "A.pdf", 0, "A.pdf:0:" \o ToString(k), generate_hash(text), None)

\* add_documents_to_store is at line 217, after a diff that found n new chunks
\* and m updated ones, with any chunk_size >= 1
InitBatch ==
    /\ disk = [f \in Paths |-> 1]
    /\ document_hashes = EmptyStore
    /\ docstore = EmptyStore
    /\ child_chunk_size = 0
    /\ chunk_size \in 1..MaxBatch
    /\ fi = 1
    /\ documents = <<>>
    /\ sub_docs = <<>>
    /\ \E n, m \in 0..MaxChunks :
          /\ new_chunks = [i \in 1..n |-> PoolChunk(i - 1, <<1>>)]
          /\ updated_chunks = [i \in 1..m |-> PoolChunk(n + i - 1, <<1>>)]
          /\ chroma = [id \in {PoolChunk(n + i - 1, <<2>>).id : i \in 1..m} |->
                          CHOOSE c \in {PoolChunk(n + i - 1, <<2>>) : i \in 1..m} :
                              c.id = id]
    /\ docs = new_chunks \o updated_chunks
    /\ existing_ids = DOMAIN chroma
    /\ batch_idx = 1
    /\ store_ops = << <<"get_ids", <<>>>> >>
                   \o [i \in 1..Len(updated_chunks) |-> <<"get", <<updated_chunks[i].id>>>>]
    /\ pc = AfterDiff(new_chunks, updated_chunks)
    /\ split_before = NoSplit
    /\ InitOtherPrograms
    /\ nRuns = 1
    /\ runs = <<[reset |-> FALSE, status |-> "running", disk |-> disk,
                 fail_kind |-> None, fail_file |-> None, fail_pc |-> None]>>
    /\ seen = EmptyStore
    /\ loaded = EmptyStore
    /\ ingested = EmptyStore
    /\ calls = [f \in Paths |-> NoCalls]

NextBatch ==
    \/ AddBatch
    \/ WriteFail

SpecBatch == InitBatch /\ [][NextBatch]_vars

\* ------------------------- a file of which one chunk is rewritten (SpecEdit)

\* the revision of the files before, and of a rewritten file after, the edit
\* of one chunk
RevBefore == 4

RevAfter == 5

InitEdit ==
    /\ disk = [f \in Paths |-> RevBefore]
    /\ document_hashes = EmptyStore
    /\ docstore = EmptyStore
    /\ chroma = EmptyStore
    /\ child_chunk_size \in ChildSizes
    /\ chunk_size = BatchSize
    /\ pc = "idle"
    /\ fi = 1
    /\ documents = <<>> /\ docs = <<>> /\ sub_docs = <<>> /\ existing_ids = {}
    /\ new_chunks = <<>> /\ updated_chunks = <<>> /\ batch_idx = 1
    /\ store_ops = <<>>
    /\ split_before = NoSplit
    /\ InitOtherPrograms
    /\ nRuns = 0
    /\ runs = <<>>
    /\ seen = EmptyStore
    /\ loaded = EmptyStore
    /\ ingested = EmptyStore
    /\ calls = [f \in Paths |-> NoCalls]

\* Another process rewrites the text of one chunk of a file, between two runs
\* or right before main() reads the file.
EditChunk(f) ==
    /\ f \in Rewritten
    /\ disk[f] = RevBefore
    /\ pc \in {"idle", "done", "aborted"} \/ f \in ReadsNext
    /\ disk' = [disk EXCEPT ![f] = RevAfter]
    /\ UNCHANGED <<stores, child_chunk_size, chunk_size, other_programs, split_before, pc, fi,
                   locals, ghosts>>

NextEdit ==
    \/ \E f \in Paths : EditChunk(f)
    \/ \E reset \in BOOLEAN : StartRun(reset)
    \/ ClearChroma
    \/ ClearDocstore
    \/ Examine
    \/ Finish
    \/ Load
    \/ LoadFail
    \/ WriteParents
    \/ GetIds
    \/ Diff
    \/ ReadFail
    \/ AddBatch
    \/ WriteFail
    \/ AddDocumentHash

SpecEdit == InitEdit /\ [][NextEdit]_vars

\* ------------------------------- chat_rag.py: interactive_query_loop (SpecChat)

populate_database == <<disk, stores, child_chunk_size, chunk_size, pc, fi, locals,
                       ghosts, split_before>>

\* populate_database.py is not running: empty stores, no run started
InitPopulateOff ==
    /\ disk = [f \in Paths |-> 1]
    /\ document_hashes = EmptyStore
    /\ docstore = EmptyStore
    /\ chroma = EmptyStore
    /\ child_chunk_size = 0
    /\ chunk_size = BatchSize
    /\ pc = "idle"
    /\ fi = 1
    /\ documents = <<>> /\ docs = <<>> /\ sub_docs = <<>> /\ existing_ids = {}
    /\ new_chunks = <<>> /\ updated_chunks = <<>> /\ batch_idx = 1
    /\ store_ops = <<>>
    /\ split_before = NoSplit
    /\ nRuns = 0
    /\ runs = <<>>
    /\ seen = EmptyStore
    /\ loaded = EmptyStore
    /\ ingested = EmptyStore
    /\ calls = [f \in Paths |-> NoCalls]

\* the lines a user types at the prompt
TypedLines ==
    {"exit", " q ", "Q", "reset", "R", "chat_history", "ch", "history",
     "change_history", "", "  ", "hello", "Hello "}

\* str.strip on the typed lines
strip(line) ==
    CASE line = " q " -> "q"
      [] line = "  " -> ""
      [] line = "Hello " -> "Hello"
      [] OTHER -> line

\* str.lower on the stripped lines
lower(text) ==
    CASE text = "Q" -> "q"
      [] text = "R" -> "r"
      [] text = "Hello" -> "hello"
      [] OTHER -> text

\* result['answer'] of rag_chain.invoke: what the model answers
Answers == {"yes", "no"}

HumanMessage(content) == [type |-> "HumanMessage", content |-> content]

SystemMessage(content) == [type |-> "SystemMessage", content |-> content]

\* line 134
ExitCommands == {"exit", "q"}

\* line 136
ResetCommands == {"reset", "r"}

\* line 141
HistoryCommands == {"chat_history", "ch", "history"}

\* a mutant of IsQuery: the empty line is a query as well
IsQueryAlways(text) == TRUE

\* line 146: if query
IsQuery(text) == text # ""

\* line 142: the lines of the chat history as they are printed
HistoryLines ==
    [i \in 1..Len(chat_history) |->
        <<IF chat_history[i].type = "HumanMessage" THEN "You" ELSE "AI",
          chat_history[i].content>>]

InitChat ==
    /\ InitPopulateOff
    /\ chat_history = <<>>
    /\ query = ""
    /\ chat_pc = "prompt"
    /\ shown = NothingShown
    /\ chain_calls = <<>>
    /\ since_reset = 0
    /\ remote_check = NoRemoteCheck
    /\ engines = <<>>
    /\ InitDownloaderOff

\* lines 133-135
Exit(line) ==
    /\ chat_pc = "prompt"
    /\ query' = strip(line)
    /\ lower(query') \in ExitCommands
    /\ chat_pc' = "exited"
    /\ UNCHANGED <<populate_database, chat_history, shown, chain_calls, since_reset,
                   remote_check, engines, downloader, retrieval>>

\* lines 133, 136-140
ResetHistory(line) ==
    /\ chat_pc = "prompt"
    /\ query' = strip(line)
    /\ lower(query') \notin ExitCommands
    /\ lower(query') \in ResetCommands
    /\ chat_history' = <<>>
    /\ shown' = [kind |-> "reset", lines |-> <<>>]
    /\ since_reset' = 0
    /\ UNCHANGED <<populate_database, chat_pc, chain_calls, remote_check, engines, downloader, retrieval>>

\* lines 133, 141-145
ShowHistory(line) ==
    /\ chat_pc = "prompt"
    /\ query' = strip(line)
    /\ lower(query') \notin ExitCommands \cup ResetCommands
    /\ lower(query') \in HistoryCommands
    /\ shown' = [kind |-> "history", lines |-> HistoryLines]
    /\ UNCHANGED <<populate_database, chat_history, chat_pc, chain_calls,
                   since_reset, remote_check, engines, downloader, retrieval>>

\* lines 133, 146-152: the chain answers the query
Ask(line, answer) ==
    /\ chat_pc = "prompt"
    /\ Len(chain_calls) < MaxTurns
    /\ query' = strip(line)
    /\ lower(query') \notin ExitCommands \cup ResetCommands \cup HistoryCommands
    /\ IsQuery(query')
    /\ chain_calls' = Append(chain_calls,
                             [input |-> query', chat_history |-> chat_history,
                              answer |-> answer, asked |-> since_reset])
    /\ shown' = [kind |-> "answer", lines |-> <<answer>>]
    /\ chat_history' = Append(Append(chat_history, HumanMessage(query')),
                              SystemMessage(answer))
    /\ since_reset' = since_reset + 1
    /\ UNCHANGED <<populate_database, chat_pc, remote_check, engines, downloader, retrieval>>

\* lines 133, 146: an empty line
EmptyLine(line) ==
    /\ chat_pc = "prompt"
    /\ query' = strip(line)
    /\ lower(query') \notin ExitCommands \cup ResetCommands \cup HistoryCommands
    /\ ~IsQuery(query')
    /\ UNCHANGED <<populate_database, chat_history, chat_pc, shown, chain_calls,
                   since_reset, remote_check, engines, downloader, retrieval>>

NextChat ==
    \/ \E line \in TypedLines : Exit(line)
    \/ \E line \in TypedLines : ResetHistory(line)
    \/ \E line \in TypedLines : ShowHistory(line)
    \/ \E line \in TypedLines, answer \in Answers : Ask(line, answer)
    \/ \E line \in TypedLines : EmptyLine(line)

SpecChat == InitChat /\ [][NextChat]_vars

\* --------------------- download_docs.py: is_remote_file_updated (SpecRemote)

\* sizes of a file in bytes, local (os.path.getsize) or remote (Content-Length)
FileSizes == {0, 9, 10, 20}

\* datetime.fromtimestamp yields local time, strptime of the header yields GMT:
\* the offset of the local time zone, in the unit of the times
UtcOffsets == {0 - 1, 0, 1}

\* the local file and the answer to requests.head(url) of one call
RemoteChecks ==
    {[NoRemoteCheck EXCEPT !.exists = TRUE, !.local_mtime = t, !.utc_offset = o,
                           !.has_last_modified = hl, !.last_modified = IF hl THEN r ELSE 0,
                           !.has_size = hs, !.size = IF hs THEN n ELSE 0,
                           !.local_file_size = m] :
        t \in 1..MaxTime, o \in UtcOffsets, hl \in BOOLEAN, r \in 1..MaxTime,
        hs \in BOOLEAN, n \in FileSizes, m \in FileSizes}
    \cup {[NoRemoteCheck EXCEPT !.has_last_modified = hl,
                                !.last_modified = IF hl THEN r ELSE 0,
                                !.has_size = hs, !.size = IF hs THEN n ELSE 0] :
             hl \in BOOLEAN, r \in 1..MaxTime, hs \in BOOLEAN, n \in FileSizes}

\* is_remote_file_updated: "True", "False", or the exception that leaves it
is_remote_file_updated(c) ==
    IF ~c.exists THEN "True"
    ELSE IF c.has_last_modified /\ c.local_mtime + c.utc_offset <= c.last_modified
         THEN "True"
    ELSE IF c.has_size
         THEN IF c.size = 0 THEN "ZeroDivisionError"
              ELSE IF 10 * c.local_file_size <= 9 * c.size THEN "True" ELSE "False"
    ELSE "False"

InitRemote ==
    /\ InitPopulateOff
    /\ chat_history = <<>>
    /\ query = ""
    /\ chat_pc = "off"
    /\ shown = NothingShown
    /\ chain_calls = <<>>
    /\ since_reset = 0
    /\ remote_check \in RemoteChecks
    /\ engines = <<>>
    /\ InitDownloaderOff

\* download_single_pdf calls is_remote_file_updated(file_path, url)
CheckRemote ==
    /\ remote_check.returned = "nothing"
    /\ remote_check' = [remote_check EXCEPT !.returned = is_remote_file_updated(remote_check)]
    /\ UNCHANGED <<populate_database, chat_rag, engines, downloader, retrieval>>

NextRemote == CheckRemote

SpecRemote == InitRemote /\ [][NextRemote]_vars

\* ------------------------------------------------------------------ claims

Range(seq) == {seq[i] : i \in 1..Len(seq)}

FileIndex(f) == CHOOSE i \in 1..Len(Files) : Files[i] = f

\* the digest the cache holds for f, NoHash if none
Cached(f) == get_document_hash_from_store(document_hashes, f)

\* the chunks of revision v of file f that go to the vector index and to the
\* document store
CandidatesOf(f, v) ==
    LET split == split_documents(load_documents(f, v), child_chunk_size)
    IN IF split[2] # <<>> THEN split[2] ELSE split[1]

ParentsOf(f, v) ==
    LET split == split_documents(load_documents(f, v), child_chunk_size)
    IN IF split[2] # <<>> THEN split[1] ELSE <<>>

\* every chunk of revision v of f is in its store, with the hash of its text
Written(f, v) ==
    /\ \A c \in Range(CandidatesOf(f, v)) :
          c.id \in DOMAIN chroma /\ chroma[c.id].hash = c.hash
    /\ \A p \in Range(ParentsOf(f, v)) :
          p.id \in DOMAIN docstore /\ docstore[p.id].hash = p.hash

\* C1: no state is reachable in which the current digest of a file is cached
\* while some chunk of that file has not been written (the digest is cached
\* only after all parent writes and all batches of the file).  Stated for the
\* cache entries that are the digest of the content the last full ingest of
\* the file loaded, and outside clear_database.
C1_CachedDigestImpliesWritten ==
    \A f \in Paths :
        (/\ pc # "clear_docstore"
         /\ Cached(f) = get_file_hash(disk[f])
         /\ f \in DOMAIN ingested
         /\ Cached(f) = get_file_hash(ingested[f]))
        => Written(f, disk[f])

\* the second of two runs, the first of which ended without error, on a corpus
\* that no one rewrote since the first run started, and without --reset
SecondRunOnUnchangedCorpus ==
    /\ Len(runs) = 2
    /\ runs[1].status = "done"
    /\ runs[1].disk = disk
    /\ ~runs[2].reset

\* C2: after a run that completed without error, a second run over the same
\* unchanged files calls vectorstore.add_documents zero times.
C2_SecondRunWritesNothing ==
    SecondRunOnUnchangedCorpus => \A f \in Paths : calls[f].add = 0

\* C2, witness: such a second run has ended, after a first run that filled the
\* vector index
C2_SecondRunEnded ==
    /\ SecondRunOnUnchangedCorpus
    /\ pc = "done"
    /\ DOMAIN seen = Paths
    /\ DOMAIN chroma # {}

\* the steps of main() on the file it has not skipped
InPipeline ==
    {"load", "mset", "get_ids", "diff", "add_new", "add_updated", "add_hash", "aborted"}

\* C3: a file whose cached digest equals its current digest is skipped: no
\* load, no call of the vector index or the document store, cache entry
\* unchanged; a file whose cached digest is absent or different goes through
\* the whole pipeline: unless an exception ends the run there, it is loaded,
\* its parents are stored, the index is read, all its chunks are in the index
\* and its digest is cached.
C3_SkipIffDigestCached ==
    \A f \in DOMAIN seen :
        IF seen[f].local_file_hash = seen[f].document_hash
        THEN /\ calls[f] = NoCalls
             /\ f \notin DOMAIN loaded
             /\ Cached(f) = seen[f].document_hash
             /\ fi > FileIndex(f)
        ELSE \/ fi = FileIndex(f) /\ pc \in InPipeline
             \/ /\ fi > FileIndex(f)
                /\ f \in DOMAIN loaded
                /\ calls[f].get >= 1
                /\ ParentsOf(f, loaded[f]) # <<>> => calls[f].mset = 1
                /\ Written(f, loaded[f])
                /\ Cached(f) # NoHash

\* C3, witness: a run has ended in which one file was skipped and another one
\* went through the pipeline
C3_OneSkippedOneIngested ==
    /\ pc = "done"
    /\ \E f, g \in DOMAIN seen :
          /\ seen[f].local_file_hash = seen[f].document_hash
          /\ seen[g].local_file_hash # seen[g].document_hash
          /\ calls[g].add >= 1

\* the diff has been computed (SpecDiff stops there)
DiffDone == pc \in {"add_new", "add_updated", "add_hash"}

IsNew(d) == d.id \notin DOMAIN chroma

IsUpdated(d) == d.id \in DOMAIN chroma /\ chroma[d.id].hash # d.hash

\* C4: get_documents_to_add_or_update returns as new the candidates whose id
\* the index does not hold, as updated those whose id it holds with another
\* hash, and leaves out those whose id it holds with the same hash.
C4_DiffIsReferenceClassification ==
    DiffDone =>
        /\ new_chunks = SelectSeq(vectorstore_documents, IsNew)
        /\ updated_chunks = SelectSeq(vectorstore_documents, IsUpdated)

\* C4, witness: a diff with a new, an updated and an unchanged candidate
C4_AllThreeClasses ==
    /\ DiffDone
    /\ new_chunks # <<>>
    /\ updated_chunks # <<>>
    /\ \E d \in Range(vectorstore_documents) : ~IsNew(d) /\ ~IsUpdated(d)

RECURSIVE IsSubseq(_, _)
IsSubseq(s, t) ==
    IF s = <<>> THEN TRUE
    ELSE IF t = <<>> THEN FALSE
    ELSE IF Head(s) = Head(t) THEN IsSubseq(Tail(s), Tail(t))
    ELSE IsSubseq(s, Tail(t))

\* C5: to_insert and to_update are disjoint, and each is a subsequence of the
\* candidate list, in the order of the candidates.
C5_DisjointOrderedSubsequences ==
    DiffDone =>
        /\ {d.id : d \in Range(new_chunks)} \cap {d.id : d \in Range(updated_chunks)} = {}
        /\ Range(new_chunks) \cap Range(updated_chunks) = {}
        /\ IsSubseq(new_chunks, vectorstore_documents)
        /\ IsSubseq(updated_chunks, vectorstore_documents)

\* C5, witness: a diff whose outputs hold three candidates, two of them
\* different ones in the same output
C5_TwoInOneOutput ==
    /\ DiffDone
    /\ Len(new_chunks) + Len(updated_chunks) = 3
    /\ \/ Len(new_chunks) = 2 /\ new_chunks[1] # new_chunks[2]
       \/ Len(updated_chunks) = 2 /\ updated_chunks[1] # updated_chunks[2]

\* the chunks of the vector index that name a parent
Children == {id \in DOMAIN chroma : chroma[id].parent_id # None}

NoDanglingChild == \A id \in Children : chroma[id].parent_id \in DOMAIN docstore

NoOrphanParent ==
    \A p \in DOMAIN docstore : \E id \in Children : chroma[id].parent_id = p

\* C6: after an ingest with child splitting that completes without error,
\* every child of the vector index names a parent the document store holds,
\* and every parent of the document store is named by a child of the vector
\* index.  Stated for the runs before which no run has failed.
C6_ConsistentAfterIngest ==
    (/\ child_chunk_size > 0
     /\ pc = "done"
     /\ \A i \in 1..Len(runs) : runs[i].status = "done"
     /\ nRuns <= 2)
    => NoDanglingChild /\ NoOrphanParent

\* C7: in every state the two stores are left in, a parent is in the document
\* store if and only if a child of the vector index names it.
C7_ParentIffChild ==
    (child_chunk_size > 0 /\ pc \in {"idle", "done", "aborted"})
    => NoDanglingChild /\ NoOrphanParent

\* the run in progress was ended by the write of a batch that raised
BatchFailed == pc = "aborted" /\ Run.fail_kind = "write"

\* the chunks written, and not written, by the call of
\* add_or_update_documents_to_vectorstore that raised at batch batch_idx
FailedCallBatches ==
    chunk_list(IF Run.fail_pc = "add_new" THEN new_chunks ELSE updated_chunks,
               chunk_size)

AppliedBeforeFailure ==
    (IF Run.fail_pc = "add_updated" THEN Range(new_chunks) ELSE {})
    \cup UNION {Range(FailedCallBatches[i]) : i \in 1..(batch_idx - 1)}

NotAppliedAfterFailure ==
    (IF Run.fail_pc = "add_new" THEN Range(updated_chunks) ELSE {})
    \cup UNION {Range(FailedCallBatches[i]) : i \in batch_idx..Len(FailedCallBatches)}

\* C8, first part: the batches before the failing one remain, the failing
\* batch and the later ones are not applied, the digest cache is as it was
C8_FailedBatchLeaves ==
    BatchFailed =>
        /\ \A c \in AppliedBeforeFailure : c.id \in DOMAIN chroma /\ chroma[c.id] = c
        /\ \A c \in NotAppliedAfterFailure :
              c.id \notin DOMAIN chroma \/ chroma[c.id] # c
        /\ Cached(Run.fail_file) = seen[Run.fail_file].document_hash

\* C8, second part: the run after it does not skip the file
C8_NextRunDoesNotSkip ==
    (/\ Len(runs) = 2
     /\ runs[1].fail_kind = "write"
     /\ runs[1].fail_file \in DOMAIN seen)
    => seen[runs[1].fail_file].local_file_hash # seen[runs[1].fail_file].document_hash

\* C8: when the k-th batch of a file fails, the batches before it remain, the
\* failing batch and the later ones are not applied, the cache entry of the
\* file is unchanged, and the next run does not skip the file.
C8_FailedBatchIsRetried == C8_FailedBatchLeaves /\ C8_NextRunDoesNotSkip

\* C9: when the loader or a store read fails on a file, the cache entry of the
\* file is untouched and the run goes on: every later file is examined.
C9_LaterFilesStillIngested ==
    (pc \in {"done", "aborted"} /\ runs # <<>> /\ Run.fail_kind \in {"load", "read"})
    => /\ Cached(Run.fail_file) = seen[Run.fail_file].document_hash
       /\ \A g \in Paths : FileIndex(g) > FileIndex(Run.fail_file) => g \in DOMAIN seen

\* C10: a digest the cache holds for a path is the digest of the content from
\* which the chunks last written for the path were derived.
C10_CachedDigestIsOfIngestedContent ==
    \A f \in DOMAIN document_hashes :
        f \in DOMAIN ingested /\ document_hashes[f] = get_file_hash(ingested[f])

\* ------------------------------------------------ claims on split_documents

\* split_documents has returned for the second time
SplitTwice == pc = "split_done" /\ split_before.called

PairwiseDistinct(seq) ==
    \A i, j \in 1..Len(seq) : i # j => seq[i] # seq[j]

WellFormed(documents_) ==
    \A i \in 1..Len(documents_) : documents_[i].page = i - 1

\* C12 holds for the documents whose pages come in order
C12_DistinctOnOrderedPages ==
    (pc = "split_done" /\ WellFormed(documents)) => PairwiseDistinct(Ids(docs))

\* the ids of the chunks of page q, in order
IdsOnPage(chunks, q) ==
    LET OnPage(d) == d.page = q
    IN Ids(SelectSeq(chunks, OnPage))

\* the positions at which the document differs from the one split before
ChangedPages ==
    {i \in 1..Len(documents) : documents[i] # split_before.documents[i]}

\* the document split last differs from the one split before in one page,
\* and its pages come in order
OnePageChanged ==
    /\ SplitTwice
    /\ WellFormed(documents)
    /\ Cardinality(ChangedPages) = 1

UnchangedPageNumbers ==
    {documents[i].page : i \in (1..Len(documents)) \ ChangedPages}

C13_ParentIdsStable ==
    OnePageChanged =>
        \A q \in UnchangedPageNumbers :
            IdsOnPage(docs, q) = IdsOnPage(split_before.docs, q)

C13_ChildIdsStable ==
    OnePageChanged =>
        \A q \in UnchangedPageNumbers :
            IdsOnPage(sub_docs, q) = IdsOnPage(split_before.sub_docs, q)

\* C13: when two versions of a file differ only in the number of chunks of one
\* page, every chunk of every other page has the same id in both versions,
\* parents and children alike.
C13_IdsStableOnOtherPages == C13_ParentIdsStable /\ C13_ChildIdsStable

\* C14: no id of the parent pass is an id of a child pass, and the children of
\* two different parents never share an id.
C14_NoCollisionAcrossPasses ==
    pc = "split_done" =>
        /\ Range(Ids(docs)) \cap Range(Ids(sub_docs)) = {}
        /\ \A i, j \in 1..Len(docs) :
              i # j => Range(Ids(SubDocumentsOf(docs[i], i - 1)))
                         \cap Range(Ids(SubDocumentsOf(docs[j], j - 1))) = {}

\* C14, witness: two parents of the same page, each with a child
C14_TwoParentsOnOnePage ==
    /\ pc = "split_done"
    /\ child_chunk_size > 0
    /\ \E i, j \in 1..Len(docs) : i # j /\ docs[i].page = docs[j].page
    /\ Len(sub_docs) >= 2

\* the parent (by position in docs) of each child, in the order of the children
RECURSIVE ParentPositions(_, _)
ParentPositions(parents, i) ==
    IF i > Len(parents) THEN <<>>
    ELSE [k \in 1..Len(parents[i].page_content) |-> i]
         \o ParentPositions(parents, i + 1)

\* the texts of the children, in order
ChildTexts(parents) ==
    Flatten([i \in 1..Len(parents) |->
                [k \in 1..Len(parents[i].page_content) |->
                    <<parents[i].page_content[k]>>]])

\* C15: with child_chunk_size > 0 every child that split_documents returns has
\* as parent_id the id of the parent it was cut from, a parent of the returned
\* list, and has its own id and the hash of its own text.
C15_ChildrenNameTheirParent ==
    (pc = "split_done" /\ child_chunk_size > 0) =>
        /\ Len(sub_docs) = Len(ChildTexts(docs))
        /\ \A k \in 1..Len(sub_docs) :
              LET child == sub_docs[k]
                  parent == docs[ParentPositions(docs, 1)[k]]
              IN /\ child.page_content = ChildTexts(docs)[k]
                 /\ child.parent_id = parent.id
                 /\ child.hash = generate_hash(child.page_content)
                 /\ child.id # parent.id
                 /\ child.id \notin Range(Ids(docs))

\* C15, witness: a parent of two children, whose text is not a child's text
C15_ParentOfTwoChildren ==
    /\ pc = "split_done"
    /\ child_chunk_size > 0
    /\ \E i \in 1..Len(docs) : Len(docs[i].page_content) = 2
    /\ Len(sub_docs) >= 3

\* ----------------------------------------- claims on add_documents_to_store

\* main() is inside add_documents_to_store, past line 210, or left it there
\* by an exception
PastParentWrite ==
    /\ fi <= Len(Files)
    /\ \/ pc \in {"get_ids", "diff", "add_new", "add_updated", "add_hash"}
       \/ pc = "aborted" /\ Run.fail_pc \in {"get_ids", "diff", "add_new", "add_updated"}

\* C16: for a file that is not skipped, with child splitting, all parents are
\* written to the document store under their ids, whatever the diff finds,
\* and before the first batch goes to the vector index.
C16_ParentsWrittenFirst ==
    (PastParentWrite /\ child_chunk_size > 0) =>
        /\ calls[file_path].mset = 1
        /\ store_ops # <<>>
        /\ store_ops[1] = <<"mset", Ids(docs)>>
        /\ \A i \in 1..Len(docs) :
              docs[i].id \in DOMAIN docstore /\ docstore[docs[i].id] = docs[i]

\* C16, witness: the diff found nothing to write, and the parents are written
C16_ParentsWrittenNothingToAdd ==
    /\ pc = "add_hash"
    /\ child_chunk_size > 0
    /\ docs # <<>>
    /\ new_chunks = <<>> /\ updated_chunks = <<>>
    /\ calls[file_path].mset = 1
    /\ calls[file_path].add = 0

\* the groups of ids written so far by the call for the new chunks
\* ("add_new") or for the updated chunks ("add_updated")
GroupsWritten(call) ==
    LET OfCall(op) == op[1] = call
        ops == SelectSeq(store_ops, OfCall)
    IN [i \in 1..Len(ops) |-> ops[i][2]]

\* main() is at one of the steps, or an exception left it there
Reached(steps) ==
    pc \in steps \/ (pc = "aborted" /\ Run.fail_pc \in steps)

IsPrefix(s, t) == Len(s) <= Len(t) /\ s = SubSeq(t, 1, Len(s))

\* the batches written for one list of chunks are consecutive pieces of it
BatchesOf(call, chunks, complete) ==
    LET groups == GroupsWritten(call)
        flat == Flatten(groups)
    IN /\ IsPrefix(flat, Ids(chunks))
       /\ complete => flat = Ids(chunks)
       /\ \A i \in 1..Len(groups) :
             /\ groups[i] # <<>>
             /\ Len(groups[i]) <= chunk_size
             /\ (i < Len(groups) \/ ~complete) => Len(groups[i]) = chunk_size
       /\ \A k \in 1..Len(flat) :
             chunks[k].id \in DOMAIN chroma /\ chroma[chunks[k].id] = chunks[k]

\* C17: for every chunk_size >= 1 the chunks to write are cut into consecutive
\* batches, in order, none empty, none longer than chunk_size, all but the
\* last of chunk_size chunks, and the batches are written in that order, every
\* chunk under its own id.
C17_BatchesPartitionInOrder ==
    /\ BatchesOf("add_new", new_chunks, Reached({"add_updated", "add_hash"}))
    /\ BatchesOf("add_updated", updated_chunks, Reached({"add_hash"}))
    /\ \A i, j \in 1..Len(store_ops) :
          (store_ops[i][1] = "add_updated" /\ store_ops[j][1] = "add_new") => j < i

\* C17, witness: a list has been written in several batches, the last one
\* shorter than the others
C17_ShortLastBatch ==
    /\ pc = "add_hash"
    /\ chunk_size >= 2
    /\ LET groups == GroupsWritten("add_new")
       IN Len(groups) >= 2 /\ Len(groups[Len(groups)]) < chunk_size
    /\ GroupsWritten("add_updated") # <<>>

\* every chunk of revision v of f is in the vector index, with its hash
IndexHolds(f, v) ==
    \A c \in Range(CandidatesOf(f, v)) :
        c.id \in DOMAIN chroma /\ chroma[c.id].hash = c.hash

\* the ids of the chunks whose text the edit changed
EditedIds(f) ==
    LET before == CandidatesOf(f, RevBefore)
        after == CandidatesOf(f, RevAfter)
    IN {after[i].id : i \in {k \in 1..Len(after) : after[k].hash # before[k].hash}}

\* the diff is done for the edited file, nothing of which has been written
\* yet, and the vector index holds the file as it was before the edit
ReingestingEdited ==
    /\ fi <= Len(Files)
    /\ DiffDone
    /\ file_path \in DOMAIN loaded
    /\ loaded[file_path] = RevAfter
    /\ IndexHolds(file_path, RevBefore)
    /\ GroupsWritten("add_new") = <<>>

C18_OneUpdatedNoneNew ==
    ReingestingEdited =>
        /\ new_chunks = <<>>
        /\ Len(updated_chunks) = 1
        /\ updated_chunks[1].id \in EditedIds(file_path)
        /\ pc = "add_updated"

C18_OthersNotRewritten ==
    ReingestingEdited =>
        /\ DOMAIN chroma' = DOMAIN chroma
        /\ \A id \in DOMAIN chroma \ EditedIds(file_path) : chroma'[id] = chroma[id]
        /\ chroma' # chroma => pc' = "add_hash"

\* C18: when the text of exactly one chunk of an ingested file is edited and
\* the file is ingested again, exactly one chunk is classified updated and
\* none new; the other chunks are left as they are in the index.
C18_ExactlyOneChunkUpdated ==
    [](C18_OneUpdatedNoneNew) /\ [][C18_OthersNotRewritten]_vars

\* C18, witness: the edited file has been ingested again with child splitting,
\* by one write of one chunk
C18_EditedFileReingested ==
    /\ pc = "add_hash"
    /\ child_chunk_size > 0
    /\ loaded[file_path] = RevAfter
    /\ file_path \in DOMAIN ingested /\ ingested[file_path] = RevBefore
    /\ Len(updated_chunks) = 1
    /\ Len(vectorstore_documents) = 3
    /\ calls[file_path].add = 1
    /\ IndexHolds(file_path, RevAfter)

\* main() is about to examine the first file of the run
BeforeFirstFile == pc = "examine" /\ fi = 1 /\ seen = EmptyStore

C19_EmptyAfterReset ==
    (BeforeFirstFile /\ Run.reset) => chroma = EmptyStore /\ docstore = EmptyStore

C19_KeptWithoutReset ==
    (runs' # <<>> /\ ~runs'[Len(runs')].reset) =>
        /\ DOMAIN chroma \subseteq DOMAIN chroma'
        /\ DOMAIN docstore \subseteq DOMAIN docstore'

\* C19: with reset, the vector index and the document store are empty before
\* the first file of the run is examined; without reset, no run removes
\* anything from either store.
C19_ResetClearsBothStoresFirst ==
    [](C19_EmptyAfterReset) /\ [][C19_KeptWithoutReset]_vars

\* C19, witness: a run with reset is about to examine its first file, after a
\* run that filled the stores
C19_ResetAfterIngest ==
    /\ BeforeFirstFile
    /\ Run.reset
    /\ ingested # EmptyStore
    /\ child_chunk_size > 0

\* the calls that listed the ids of the index for the file of this iteration
Listings ==
    LET IsListing(op) == op[1] = "get_ids"
    IN SelectSeq(store_ops, IsListing)

IsIndexRead(op) == op[1] \in {"get_ids", "get"}

IsIndexWrite(op) == op[1] \in {"add_new", "add_updated"}

\* C20: for each ingested file the ids of the index are listed exactly once,
\* and every read of the index (the listing and the lookups by id) comes
\* before every write of the index.
C20_ReadsBeforeWrites ==
    /\ Len(Listings) <= 1
    /\ (fi <= Len(Files) /\ (pc = "diff" \/ DiffDone)) => Len(Listings) = 1
    /\ \A i, j \in 1..Len(store_ops) :
          (IsIndexWrite(store_ops[i]) /\ IsIndexRead(store_ops[j])) => j < i

\* C20, witness: a file has been written after lookups by id
C20_WrittenAfterLookups ==
    /\ pc = "add_hash"
    /\ \E i, j \in 1..Len(store_ops) :
          store_ops[i][1] = "get" /\ store_ops[j][1] = "add_updated"
    /\ \E j \in 1..Len(store_ops) : store_ops[j][1] = "add_new"

\* ------------------------------------------------ claims on the digest cache

\* the step is the call of add_document_hash at line 50
C21_GetAfterSet ==
    (pc = "add_hash" /\ pc' # "add_hash") =>
        /\ get_document_hash_from_store(document_hashes', file_path)
              = get_file_hash(disk[file_path])
        /\ \A g \in Paths \ {file_path} :
              get_document_hash_from_store(document_hashes', g)
                = get_document_hash_from_store(document_hashes, g)

C21_AbsentIfNeverSet ==
    \A f \in Paths :
        f \notin DOMAIN ingested
            => get_document_hash_from_store(document_hashes, f) = NoHash

\* C21: after add_document_hash(p), get_document_hash_from_store(p) returns
\* the digest stored last for p; for a path never stored it returns None; and
\* storing a digest for p changes the result for no other path.
C21_CacheIsGetSet ==
    [](C21_AbsentIfNeverSet) /\ [][C21_GetAfterSet]_vars

\* C21, witness: a second digest has been stored for a path, while another
\* path has its digest and a run has begun after that
C21_DigestReplaced ==
    /\ nRuns >= 2
    /\ DOMAIN document_hashes = Paths
    /\ document_hashes["A.pdf"] = get_file_hash(2)
    /\ document_hashes["B.pdf"] = get_file_hash(1)

\* -------------------------------------------------- claims on the chat loop

\* the inputs that show the chat history, as the docstring lists them
ShowInputs == {"change_history", "ch", "history"}

C22_ShowLeavesHistory ==
    (chat_pc = "prompt" /\ lower(query') \in ShowInputs) =>
        /\ chain_calls' = chain_calls
        /\ chat_history' = chat_history
        /\ shown' = [kind |-> "history", lines |-> HistoryLines]

C22_ResetEmptiesHistory ==
    (chat_pc = "prompt" /\ lower(query') \in {"reset", "r"}) => chat_history' = <<>>

C22_ExitEndsLoop ==
    (chat_pc = "prompt" /\ lower(query') \in {"exit", "q"}) => chat_pc' = "exited"

\* C22: 'change_history', 'ch' and 'history' show the chat history without a
\* call of the chain and leave chat_history as it is; 'reset' and 'r' empty
\* chat_history; 'exit' and 'q' end the loop.
C22_CommandsOfTheLoop ==
    [][C22_ShowLeavesHistory /\ C22_ResetEmptiesHistory /\ C22_ExitEndsLoop]_vars

\* the messages of the calls of the chain numbered from..to
RECURSIVE Turns(_, _)
Turns(from, to) ==
    IF from > to THEN <<>>
    ELSE <<HumanMessage(chain_calls[from].input),
           SystemMessage(chain_calls[from].answer)>> \o Turns(from + 1, to)

C30_PairsSinceReset ==
    /\ Len(chat_history) % 2 = 0
    /\ since_reset <= Len(chain_calls)
    /\ chat_history = Turns(Len(chain_calls) - since_reset + 1, Len(chain_calls))
    /\ \A k \in 1..Len(chain_calls) :
          /\ chain_calls[k].asked < k
          /\ chain_calls[k].chat_history = Turns(k - chain_calls[k].asked, k - 1)

C30_EmptyInputChangesNothing ==
    (chat_pc = "prompt" /\ query' = "") =>
        chat_history' = chat_history /\ chain_calls' = chain_calls

\* C30: chat_history is, in order, one (question, answer) pair, the question
\* first, for every query the chain answered since the last reset; its length
\* is even; an empty input changes nothing; and the history passed to the
\* chain with a query is the one of the queries before it.
C30_HistoryIsThePairsSinceReset ==
    [](C30_PairsSinceReset) /\ [][C30_EmptyInputChangesNothing]_vars

\* C30, witness: after two answers, a reset and another answer, an empty line
\* has been entered
C30_EmptyLineAfterReset ==
    /\ Len(chain_calls) = 3
    /\ since_reset = 1
    /\ Len(chat_history) = 2
    /\ query = ""
    /\ chain_calls[2].chat_history # <<>>

\* ------------------------------------------------- claims on download_docs

\* C23: is_remote_file_updated returns True if the local file does not exist,
\* if the remote file is newer than the local file, or if the size of the
\* remote file is different from the size of the local file, and False
\* otherwise.
C23_UpdatedIffNewerOrOtherSize ==
    remote_check.returned # "nothing" =>
        LET c == remote_check
            updated == \/ ~c.exists
                       \/ c.has_last_modified /\ c.last_modified > c.local_mtime
                       \/ c.has_size /\ c.size # c.local_file_size
        IN c.returned = IF updated THEN "True" ELSE "False"

\* ------------------------------------------------- claims on the id format

\* key_i of the claim: source, the index of the pass when given, the page
\* number (0 when absent)
KeyOf(chunk, pass) ==
    chunk.source
    \o (IF pass = NoIdx THEN "" ELSE ":" \o ToString(pass))
    \o ":" \o (IF chunk.page = NoPage THEN "0" ELSE ToString(chunk.page))

\* c_i of the claim for a pass whose keys are keys: the number of chunks right
\* before chunk i that have its key
CounterOf(keys, i) ==
    LET starts == {j \in 1..i : j = 1 \/ keys[j] # keys[j - 1]}
    IN i - (CHOOSE j \in starts : \A k \in starts : k <= j)

\* the first child of the parent of child k
FirstChildOf(positions, k) ==
    CHOOSE j \in 1..k :
        /\ positions[j] = positions[k]
        /\ \A l \in 1..k : positions[l] = positions[k] => j <= l

\* C24: generate_documents_with_metadata gives chunk i the id key_i:c_i, with
\* key_i the source, the index of the pass when given and the page number (0
\* when absent), and c_i = 0 for the first chunk and when key_i differs from
\* key_(i-1), c_(i-1) + 1 otherwise; the only chunk of a one-page file A.pdf
\* gets A.pdf:0:0.
C24_IdIsKeyAndCounter ==
    pc = "split_done" =>
        /\ LET keys == [i \in 1..Len(docs) |-> KeyOf(docs[i], NoIdx)]
           IN \A i \in 1..Len(docs) :
                docs[i].id = keys[i] \o ":" \o ToString(CounterOf(keys, i))
        /\ LET positions == ParentPositions(docs, 1)
           IN \A k \in 1..Len(sub_docs) :
                sub_docs[k].id =
                    KeyOf(sub_docs[k], positions[k] - 1)
                    \o ":" \o ToString(k - FirstChildOf(positions, k))
        /\ (Len(documents) = 1 /\ Len(docs) = 1 /\ documents[1].page \in {0, NoPage})
              => docs[1].id = "A.pdf:0:0"

\* C24, witness: a file of one page and one chunk, and a file whose pages
\* have no number, split in two passes
C24_OnePageOneChunk ==
    /\ pc = "split_done"
    /\ Len(documents) = 1
    /\ documents[1].page = 0
    /\ Len(docs) = 1
    /\ docs[1].id = "A.pdf:0:0"
    /\ split_before.called
    /\ Len(split_before.docs) = 2
    /\ split_before.documents[1].page = 0

\* ------------------------- ingest without child splitting (SpecNoChild)

\* what split_documents returns for revision 1 of every file when
\* CHILD_CHUNK_SIZE is child_chunk_size: (parents, children)
SplitOfCorpus(child_chunk_size_) ==
    LET split(i) == split_documents(load_documents(Files[i], 1), child_chunk_size_)
    IN <<Flatten([i \in 1..Len(Files) |-> split(i)[1]]),
         Flatten([i \in 1..Len(Files) |-> split(i)[2]])>>

\* main() runs with CHILD_CHUNK_SIZE = 0, on stores that are empty or that an
\* earlier run with CHILD_CHUNK_SIZE = 1 has filled
InitNoChild ==
    /\ disk = [f \in Paths |-> 1]
    /\ child_chunk_size = 0
    /\ chunk_size = BatchSize
    /\ \/ /\ document_hashes = EmptyStore
          /\ docstore = EmptyStore
          /\ chroma = EmptyStore
       \/ /\ document_hashes =
                mset(EmptyStore, [i \in 1..Len(Files) |-> <<Files[i], get_file_hash(1)>>])
          /\ docstore = mset(EmptyStore, ParentPairs(SplitOfCorpus(1)[1]))
          /\ chroma = add_documents(EmptyStore, SplitOfCorpus(1)[2])
    /\ pc = "idle"
    /\ fi = 1
    /\ documents = <<>> /\ docs = <<>> /\ sub_docs = <<>> /\ existing_ids = {}
    /\ new_chunks = <<>> /\ updated_chunks = <<>> /\ batch_idx = 1
    /\ store_ops = <<>>
    /\ split_before = NoSplit
    /\ InitOtherPrograms
    /\ nRuns = 0
    /\ runs = <<>>
    /\ seen = EmptyStore
    /\ loaded = EmptyStore
    /\ ingested = EmptyStore
    /\ calls = [f \in Paths |-> NoCalls]

SpecNoChild == InitNoChild /\ [][Next]_vars

\* the ids for which get_documents_to_add_or_update has asked the vector index
LookedUp == {op[2][1] : op \in {o \in Range(store_ops) : o[1] = "get"}}

\* C25, the candidates: add_documents_to_store runs without children; the
\* chunks it has classified are parents, every parent that the index did not
\* hold is new, the ids it has looked up are those of the parents the index
\* held, and when it has returned the index holds every parent
C25_ParentsAreTheCandidates ==
    /\ pc \in {"mset", "get_ids", "diff", "add_new", "add_updated", "add_hash"} =>
          /\ sub_docs = <<>>
          /\ docs # <<>>
    /\ pc \in {"add_new", "add_updated", "add_hash"} =>
          /\ Range(new_chunks) = {d \in Range(docs) : d.id \notin existing_ids}
          /\ Range(updated_chunks) \subseteq
                {d \in Range(docs) : d.id \in existing_ids}
          /\ LookedUp = {d.id : d \in {c \in Range(docs) : c.id \in existing_ids}}
    /\ pc = "add_hash" =>
          \A d \in Range(docs) : d.id \in DOMAIN chroma /\ chroma[d.id] = d

\* C25, the frame: no step of an ingest changes the document store (only
\* the reset of line 23 does)
C25_DocstoreUntouched ==
    pc # "clear_docstore" => docstore' = docstore

\* C25: with child_chunk_size == 0 split_documents produces no child chunks,
\* the parent chunks are the candidates that are diffed against and written to
\* the vector index, and the ingest of a file leaves the document store
\* unchanged.
C25_ParentsOnly ==
    [](C25_ParentsAreTheCandidates) /\ [][C25_DocstoreUntouched]_vars

\* C25, witness: a file has been ingested without children, with new and with
\* updated parents, while the document store still holds the parents of an
\* earlier configuration
C25_ParentsIngestedBesideLegacy ==
    /\ pc = "add_hash"
    /\ child_chunk_size = 0
    /\ docstore # EmptyStore
    /\ new_chunks # <<>>
    /\ updated_chunks # <<>>

\* --------------------------- a file is replaced by a shorter one (SpecShrink)

\* the revision of three chunks on two pages, and the one of a single chunk
RevLong == 1

RevShort == 6

InitShrink ==
    /\ disk = [f \in Paths |-> RevLong]
    /\ document_hashes = EmptyStore
    /\ docstore = EmptyStore
    /\ chroma = EmptyStore
    /\ child_chunk_size \in ChildSizes
    /\ chunk_size = BatchSize
    /\ pc = "idle"
    /\ fi = 1
    /\ documents = <<>> /\ docs = <<>> /\ sub_docs = <<>> /\ existing_ids = {}
    /\ new_chunks = <<>> /\ updated_chunks = <<>> /\ batch_idx = 1
    /\ store_ops = <<>>
    /\ split_before = NoSplit
    /\ InitOtherPrograms
    /\ nRuns = 0
    /\ runs = <<>>
    /\ seen = EmptyStore
    /\ loaded = EmptyStore
    /\ ingested = EmptyStore
    /\ calls = [f \in Paths |-> NoCalls]

\* Another process replaces a file by the shorter revision, between two runs
\* or right before main() reads the file.
ShrinkFile(f) ==
    /\ f \in Rewritten
    /\ disk[f] = RevLong
    /\ pc \in {"idle", "done", "aborted"} \/ f \in ReadsNext
    /\ disk' = [disk EXCEPT ![f] = RevShort]
    /\ UNCHANGED <<stores, child_chunk_size, chunk_size, other_programs, split_before, pc, fi,
                   locals, ghosts>>

NextShrink ==
    \/ \E f \in Paths : ShrinkFile(f)
    \/ \E reset \in BOOLEAN : StartRun(reset)
    \/ ClearChroma
    \/ ClearDocstore
    \/ Examine
    \/ Finish
    \/ Load
    \/ LoadFail
    \/ WriteParents
    \/ GetIds
    \/ Diff
    \/ ReadFail
    \/ AddBatch
    \/ WriteFail
    \/ AddDocumentHash

SpecShrink == InitShrink /\ [][NextShrink]_vars

\* C26: after a successful re-ingest of a file whose new version yields fewer
\* chunks than the version ingested before, the vector index holds no chunk
\* of that source that is not a chunk of the current version, and the document
\* store holds no parent of that source that is not a parent of the current
\* version.  Stated for the second of two runs that both went through.
C26_NoStaleChunks ==
    \A f \in Paths :
        (/\ pc = "done"
         /\ nRuns = 2
         /\ runs[1].status = "done"
         /\ f \in DOMAIN ingested
         /\ ingested[f] = RevShort
         /\ disk[f] = RevShort
         /\ Cached(f) = get_file_hash(RevShort))
        => /\ \A id \in DOMAIN chroma :
                chroma[id].source = f => chroma[id] \in Range(CandidatesOf(f, RevShort))
           /\ \A id \in DOMAIN docstore :
                docstore[id].source = f => docstore[id] \in Range(ParentsOf(f, RevShort))

\* ------- add_or_update_documents_to_vectorstore, any chunk_size (SpecBatchAny)

\* the values of chunk_size: negative, zero and positive
BatchSizes == {0 - 1, 0} \cup 1..MaxBatch

\* add_documents_to_store is at line 217, after a diff that found n new chunks
\* and m updated ones, called with any chunk_size
InitBatchAny ==
    /\ disk = [f \in Paths |-> 1]
    /\ document_hashes = EmptyStore
    /\ docstore = EmptyStore
    /\ child_chunk_size = 0
    /\ chunk_size \in BatchSizes
    /\ fi = 1
    /\ documents = <<>>
    /\ sub_docs = <<>>
    /\ \E n, m \in 0..MaxChunks :
          /\ new_chunks = [i \in 1..n |-> PoolChunk(i - 1, <<1>>)]
          /\ updated_chunks = [i \in 1..m |-> PoolChunk(n + i - 1, <<1>>)]
          /\ chroma = [id \in {PoolChunk(n + i - 1, <<2>>).id : i \in 1..m} |->
                          CHOOSE c \in {PoolChunk(n + i - 1, <<2>>) : i \in 1..m} :
                              c.id = id]
    /\ docs = new_chunks \o updated_chunks
    /\ existing_ids = DOMAIN chroma
    /\ batch_idx = 1
    /\ store_ops = << <<"get_ids", <<>>>> >>
                   \o [i \in 1..Len(updated_chunks) |-> <<"get", <<updated_chunks[i].id>>>>]
    /\ pc = AfterDiff(new_chunks, updated_chunks)
    /\ split_before = NoSplit
    /\ InitOtherPrograms
    /\ nRuns = 1
    /\ runs = <<[reset |-> FALSE, status |-> "running", disk |-> disk,
                 fail_kind |-> None, fail_file |-> None, fail_pc |-> None]>>
    /\ seen = EmptyStore
    /\ loaded = EmptyStore
    /\ ingested = EmptyStore
    /\ calls = [f \in Paths |-> NoCalls]

\* chunk_list, line 187: range(0, len(lst), 0) raises ValueError
ChunkListFail ==
    /\ pc \in {"add_new", "add_updated"}
    /\ chunk_size = 0
    /\ Raise("chunk_list")
    /\ UNCHANGED <<disk, stores, child_chunk_size, chunk_size, other_programs, split_before, fi, locals,
                   nRuns, seen, loaded, ingested, calls>>

\* lines 277-279: chunk_list returns no batch for a negative chunk_size, the
\* loop body is not run and add_or_update_documents_to_vectorstore returns
NoBatch ==
    /\ pc \in {"add_new", "add_updated"}
    /\ chunk_size < 0
    /\ Batches = <<>>
    /\ pc' = IF pc = "add_new" THEN AfterDiff(<<>>, updated_chunks) ELSE "add_hash"
    /\ UNCHANGED <<disk, stores, child_chunk_size, chunk_size, other_programs, split_before, fi, locals,
                   ghosts>>

NextBatchAny ==
    \/ AddBatch
    \/ WriteFail
    \/ ChunkListFail
    \/ NoBatch

SpecBatchAny == InitBatchAny /\ [][NextBatchAny]_vars

ClearCrash ==
    /\ pc = "clear_docstore"
    /\ Raise("clear")
    /\ UNCHANGED <<disk, stores, child_chunk_size, chunk_size, other_programs, split_before, fi, locals,
                   nRuns, seen, loaded, ingested, calls>>

NextCrash ==
    \/ Next
    \/ ClearCrash

SpecCrash == Init /\ [][NextCrash]_vars

\* C28: in every reachable state, the state left by a crash between the two
\* deletions of clear_database included, if the vector index has been cleared
\* by a reset then the digest cache holds no entry (so no later run skips a
\* file whose chunks are missing from the vector index).  The state inside
\* clear_database, between the two deletions, is left out.
C28_ClearedIndexMeansNoDigest ==
    (/\ pc # "clear_docstore"
     /\ chroma = EmptyStore)
    => document_hashes = EmptyStore

\* ------------ two processes ingest one file each, at once (SpecPar)

\* the processes; process p ingests Files[p]
Engines == {1, 2}

\* the three stores as one value
StoresNow ==
    [document_hashes |-> document_hashes, docstore |-> docstore, chroma |-> chroma]

\* lines 42-50 of main run alone on the stores st for revision v of file f:
\* the stores they leave
IngestFile(st, f, v) ==
    LET split == split_documents(load_documents(f, v), child_chunk_size)
        candidates == IF split[2] # <<>> THEN split[2] ELSE split[1]
        r == get_documents_to_add_or_update(candidates, DOMAIN st.chroma, st.chroma)
    IN [document_hashes |-> mset(st.document_hashes, << <<f, get_file_hash(v)>> >>),
        docstore |-> IF split[2] # <<>> THEN mset(st.docstore, ParentPairs(split[1]))
                     ELSE st.docstore,
        chroma |-> add_documents(add_documents(st.chroma, r[1]), r[2])]

\* a process that is about to load its file
EngineAtLoad(p) ==
    [pc |-> "load", file_path |-> Files[p], docs |-> <<>>, sub_docs |-> <<>>,
     existing_ids |-> {}, new_chunks |-> <<>>, updated_chunks |-> <<>>,
     batch_idx |-> 1, written |-> {}]

\* Two processes are at line 42, each for its own file, on stores that are
\* empty or hold revision 1 of both files.
InitPar ==
    /\ disk \in [Paths -> 1..NVersions]
    /\ child_chunk_size \in ChildSizes
    /\ chunk_size = BatchSize
    /\ \E seeded \in BOOLEAN :
          LET empty == [document_hashes |-> EmptyStore, docstore |-> EmptyStore,
                        chroma |-> EmptyStore]
              start == IF seeded
                       THEN IngestFile(IngestFile(empty, Files[1], 1), Files[2], 1)
                       ELSE empty
          IN /\ document_hashes = start.document_hashes
             /\ docstore = start.docstore
             /\ chroma = start.chroma
             /\ engines = [start |-> start, overlapped |-> FALSE,
                           of |-> [p \in Engines |-> EngineAtLoad(p)]]
    /\ pc = "idle"
    /\ fi = 1
    /\ documents = <<>> /\ docs = <<>> /\ sub_docs = <<>> /\ existing_ids = {}
    /\ new_chunks = <<>> /\ updated_chunks = <<>> /\ batch_idx = 1
    /\ store_ops = <<>>
    /\ split_before = NoSplit
    /\ chat_history = <<>>
    /\ query = ""
    /\ chat_pc = "off"
    /\ shown = NothingShown
    /\ chain_calls = <<>>
    /\ since_reset = 0
    /\ remote_check = NoRemoteCheck
    /\ InitDownloaderOff
    /\ nRuns = 0
    /\ runs = <<>>
    /\ seen = EmptyStore
    /\ loaded = EmptyStore
    /\ ingested = EmptyStore
    /\ calls = [f \in Paths |-> NoCalls]

\* process p takes a step that leaves it with the local variables e
EngineStep(p, e) ==
    engines' = [engines EXCEPT
                  !.of[p] = e,
                  !.overlapped = @ \/ \E q \in Engines \ {p} :
                                        engines.of[q].pc \notin {"load", "done"}]

\* what process p leaves alone
EngineFrame ==
    UNCHANGED <<disk, child_chunk_size, chunk_size, chat_rag, remote_check, downloader,
                retrieval, pc, fi, locals, ghosts, split_before>>

\* lines 42-45, in process p
EngineLoad(p) ==
    LET e == engines.of[p]
        split == split_documents(load_documents(e.file_path, disk[e.file_path]),
                                 child_chunk_size)
    IN /\ e.pc = "load"
       /\ EngineStep(p, [e EXCEPT !.docs = split[1], !.sub_docs = split[2],
                                  !.pc = "mset"])
       /\ UNCHANGED stores
       /\ EngineFrame

\* add_documents_to_store, lines 209-210, in process p
EngineWriteParents(p) ==
    LET e == engines.of[p]
    IN /\ e.pc = "mset"
       /\ IF e.sub_docs # <<>>
          THEN /\ docstore' = mset(docstore, ParentPairs(e.docs))
               /\ EngineStep(p, [e EXCEPT
                     !.pc = "get_ids",
                     !.written = @ \cup {<<"docstore", id>> : id \in Range(Ids(e.docs))}])
          ELSE /\ docstore' = docstore
               /\ EngineStep(p, [e EXCEPT !.pc = "get_ids"])
       /\ UNCHANGED <<document_hashes, chroma>>
       /\ EngineFrame

\* add_documents_to_store, line 212, in process p
EngineGetIds(p) ==
    LET e == engines.of[p]
    IN /\ e.pc = "get_ids"
       /\ EngineStep(p, [e EXCEPT !.existing_ids = DOMAIN chroma, !.pc = "diff"])
       /\ UNCHANGED stores
       /\ EngineFrame

\* add_documents_to_store, line 215, in process p
EngineDiff(p) ==
    LET e == engines.of[p]
        r == get_documents_to_add_or_update(
                 IF e.sub_docs # <<>> THEN e.sub_docs ELSE e.docs,
                 e.existing_ids, chroma)
    IN /\ e.pc = "diff"
       /\ EngineStep(p, [e EXCEPT !.new_chunks = r[1], !.updated_chunks = r[2],
                                  !.batch_idx = 1, !.pc = AfterDiff(r[1], r[2])])
       /\ UNCHANGED stores
       /\ EngineFrame

\* add_or_update_documents_to_vectorstore, line 278, in process p: one batch
EngineAddBatch(p) ==
    LET e == engines.of[p]
        batches == chunk_list(IF e.pc = "add_new" THEN e.new_chunks
                              ELSE e.updated_chunks, chunk_size)
        batch == batches[e.batch_idx]
    IN /\ e.pc \in {"add_new", "add_updated"}
       /\ chroma' = add_documents(chroma, batch)
       /\ EngineStep(p, [e EXCEPT
             !.written = @ \cup {<<"chroma", id>> : id \in Range(Ids(batch))},
             !.batch_idx = IF e.batch_idx < Len(batches) THEN @ + 1 ELSE 1,
             !.pc = IF e.batch_idx < Len(batches) THEN @
                    ELSE IF e.pc = "add_new" THEN AfterDiff(<<>>, e.updated_chunks)
                    ELSE "add_hash"])
       /\ UNCHANGED <<document_hashes, docstore>>
       /\ EngineFrame

\* add_document_hash, line 50, in process p
EngineAddDocumentHash(p) ==
    LET e == engines.of[p]
    IN /\ e.pc = "add_hash"
       /\ document_hashes' = mset(document_hashes,
                                  << <<e.file_path, get_file_hash(disk[e.file_path])>> >>)
       /\ EngineStep(p, [e EXCEPT
             !.written = @ \cup {<<"document_hashes", e.file_path>>},
             !.pc = "done"])
       /\ UNCHANGED <<docstore, chroma>>
       /\ EngineFrame

NextPar ==
    \E p \in Engines :
        \/ EngineLoad(p)
        \/ EngineWriteParents(p)
        \/ EngineGetIds(p)
        \/ EngineDiff(p)
        \/ EngineAddBatch(p)
        \/ EngineAddDocumentHash(p)

SpecPar == InitPar /\ [][NextPar]_vars

\* both processes have finished
BothDone == \A p \in Engines : engines.of[p].pc = "done"

\* C29: two engine instances that ingest two different files at once on the
\* same stores never write the same chunk id or the same digest-cache key,
\* and under every interleaving of their reads and writes the final vector
\* index, document store and digest cache are those left by running the two
\* ingests one after the other, in either order.
C29_ParallelIsSequential ==
    /\ engines.of[1].written \cap engines.of[2].written = {}
    /\ BothDone =>
          LET f1 == Files[1]
              f2 == Files[2]
          IN /\ StoresNow = IngestFile(IngestFile(engines.start, f1, disk[f1]), f2, disk[f2])
             /\ StoresNow = IngestFile(IngestFile(engines.start, f2, disk[f2]), f1, disk[f1])

\* C29, witness: both processes have finished after steps of one fell into
\* the ingest of the other, on stores that held both files, each having
\* written parents, chunks and its digest
C29_InterleavedIngestsDone ==
    /\ BothDone
    /\ engines.overlapped
    /\ engines.start.chroma # EmptyStore
    /\ \A p \in Engines :
          /\ \E id \in DOMAIN docstore : <<"docstore", id>> \in engines.of[p].written
          /\ \E id \in DOMAIN chroma : <<"chroma", id>> \in engines.of[p].written

\* --------------------- query_rag.py: retrieve_relevant_docs (SpecRetrieve)

MaxQuestions == 2

MaxHits == 2

\* the alternative questions the model can generate
Questions == {"q1", "q2"}

\* the documents the retriever can return
Hits ==
    {Doc(<<1>>, "A.pdf", 0, "A.pdf:0:0", generate_hash(<<1>>), None),
     Doc(<<2>>, "A.pdf", 1, "A.pdf:1:0", generate_hash(<<2>>), None)}

\* the sequences over set of at most n elements
SeqsUpTo(set, n) == UNION {[1..k -> set] : k \in 0..n}

\* line 219: the page reference of a document
SourcePage(doc) ==
    doc.source \o " page " \o (IF doc.page = NoPage THEN "unknown" ELSE ToString(doc.page))

\* lines 214-216: the documents of one retriever result whose id is not in
\* source_ids (source_ids is updated after the whole result has been filtered)
NotInSourceIds(result, source_ids) ==
    LET Unseen(doc) == doc.id \notin source_ids
    IN SelectSeq(result, Unseen)

\* retrieve_relevant_docs is called with some questions and some retriever
InitRetrieve ==
    /\ InitPopulateOff
    /\ chat_history = <<>>
    /\ query = ""
    /\ chat_pc = "off"
    /\ shown = NothingShown
    /\ chain_calls = <<>>
    /\ since_reset = 0
    /\ remote_check = NoRemoteCheck
    /\ engines = <<>>
    /\ exit_flag = FALSE
    /\ futures = <<>>
    /\ directory = [k \in {} |-> 0]
    /\ download_pc = [pc |-> "off", next |-> 1, yielded |-> {}]
    /\ \E questions \in SeqsUpTo(Questions, MaxQuestions) :
       \E retriever \in [Questions -> SeqsUpTo(Hits, MaxHits)] :
          retrieval = [NoRetrieval EXCEPT !.questions = questions,
                                          !.retriever = retriever,
                                          !.pc = "loop"]

\* lines 213-219: one iteration of the loop over the questions
RetrieveForQuestion ==
    /\ retrieval.pc = "loop"
    /\ retrieval.n <= Len(retrieval.questions)
    /\ LET search == retrieval.questions[retrieval.n]
           _relevant_docs ==
               NotInSourceIds(retrieval.retriever[search], retrieval.source_ids)
       IN retrieval' =
            [retrieval EXCEPT
               !.relevant_docs = @ \o _relevant_docs,
               !.source_ids = @ \cup {_relevant_docs[i].id : i \in 1..Len(_relevant_docs)},
               !.source_pages =
                   @ \o [i \in 1..Len(_relevant_docs) |-> SourcePage(_relevant_docs[i])],
               !.n = @ + 1]
    /\ UNCHANGED <<populate_database, chat_rag, remote_check, engines, downloader>>

\* line 221: return relevant_docs, source_pages
ReturnRelevantDocs ==
    /\ retrieval.pc = "loop"
    /\ retrieval.n > Len(retrieval.questions)
    /\ retrieval' = [retrieval EXCEPT !.pc = "returned"]
    /\ UNCHANGED <<populate_database, chat_rag, remote_check, engines, downloader>>

NextRetrieve ==
    \/ RetrieveForQuestion
    \/ ReturnRelevantDocs

SpecRetrieve == InitRetrieve /\ [][NextRetrieve]_vars

MAX_WORKERS == 5

\* the blocks iter_content yields for the longest pdf
MaxBlocks == 2

\* the 'filename' entries a configuration can name
Filenames == {"a.pdf", "b.pdf"}

\* the pdfs of the configuration, numbered in its order
Pdfs == {1, 2}

\* a task that has not been submitted
NoFuture(filename, blocks) ==
    [state |-> "unsubmitted", pc |-> "start", file_path |-> filename,
     left |-> blocks, linked |-> FALSE, observed |-> FALSE,
     started_after_exit |-> FALSE, requests |-> 0, written |-> 0,
     outcome |-> "none"]

\* open(file_path, "wb"): the file is created, or emptied if it exists
open_wb(dir, path) == [q \in DOMAIN dir \cup {path} |-> IF q = path THEN 0 ELSE dir[q]]

\* a mutant of remove: the file is left where it is
remove_nothing(dir, path) == dir

\* os.remove(file_path)
remove(dir, path) == [q \in DOMAIN dir \ {path} |-> dir[q]]

\* a mutant of ReturnsAtOnce: the task goes on whatever the flag says
ReturnsNever(flag) == FALSE

\* download_single_pdf, line 138: if exit_flag.is_set(): return
ReturnsAtOnce(flag) == flag

\* download_docs is called: a configuration of two pdfs of the same
\* length, a download directory that is empty or holds earlier copies
InitDownload ==
    /\ InitPopulateOff
    /\ chat_history = <<>>
    /\ query = ""
    /\ chat_pc = "off"
    /\ shown = NothingShown
    /\ chain_calls = <<>>
    /\ since_reset = 0
    /\ remote_check = NoRemoteCheck
    /\ engines = <<>>
    /\ retrieval = NoRetrieval
    /\ exit_flag = FALSE
    /\ \E filename \in [Pdfs -> Filenames] :
       \E blocks \in 0..MaxBlocks :
          futures = [i \in Pdfs |-> NoFuture(filename[i], blocks)]
    /\ \E present \in {{}, Filenames} : directory = [q \in present |-> 1]
    /\ download_pc = [pc |-> "submit", next |-> 1, yielded |-> {}]

\* what download_docs.py leaves alone
DownloadFrame ==
    UNCHANGED <<populate_database, chat_rag, remote_check, engines, retrieval>>

\* signal_handler, line 32, or check_for_exit, line 42: exit_flag.set()
SetExitFlag ==
    /\ download_pc.pc \notin {"off", "returned"}
    /\ ~exit_flag
    /\ exit_flag' = TRUE
    /\ UNCHANGED <<futures, directory, download_pc>>
    /\ DownloadFrame

\* lines 173-181: the next pdf is submitted, or the loops end
Submit ==
    /\ download_pc.pc = "submit"
    /\ IF exit_flag \/ download_pc.next \notin Pdfs
       THEN /\ download_pc' = [download_pc EXCEPT !.pc = "as_completed"]
            /\ futures' = futures
       ELSE /\ futures' = [futures EXCEPT ![download_pc.next].state = "pending"]
            /\ download_pc' = [download_pc EXCEPT !.next = @ + 1]
    /\ UNCHANGED <<exit_flag, directory>>
    /\ DownloadFrame

\* the tasks that wait for a thread of the pool
Pending == {i \in Pdfs : futures[i].state = "pending"}

\* the tasks a thread of the pool is running
Running == {i \in Pdfs : futures[i].state = "running"}

\* a task has ended
Ended(future, outcome) ==
    [future EXCEPT !.state = "finished", !.pc = "returned", !.outcome = outcome]

\* a thread of the pool takes the oldest waiting task: download_single_pdf,
\* lines 138-143
StartTask(i) ==
    /\ i \in Pending
    /\ \A j \in Pending : i <= j
    /\ Cardinality(Running) < MAX_WORKERS
    /\ futures' = [futures EXCEPT ![i] =
          IF ReturnsAtOnce(exit_flag)
          THEN [Ended(@, "exit") EXCEPT !.started_after_exit = exit_flag]
          ELSE [@ EXCEPT !.state = "running", !.pc = "head",
                         !.started_after_exit = exit_flag]]
    /\ UNCHANGED <<exit_flag, directory, download_pc>>
    /\ DownloadFrame

\* what is_remote_file_updated can answer for a file that exists, or not
Answers_is_remote_file_updated(exists) ==
    {is_remote_file_updated(c) : c \in {r \in RemoteChecks : r.exists = exists}}

\* download_single_pdf, line 145: is_remote_file_updated(file_path, url)
CheckUpdated(i) ==
    /\ futures[i].state = "running"
    /\ futures[i].pc = "head"
    /\ \E updated \in Answers_is_remote_file_updated(futures[i].file_path \in DOMAIN directory) :
          /\ LET asked == IF futures[i].file_path \in DOMAIN directory THEN 1 ELSE 0
             IN futures' = [futures EXCEPT ![i] =
                  IF updated = "True"
                  THEN [@ EXCEPT !.pc = "get", !.requests = @ + asked]
                  ELSE IF updated = "False"
                  THEN [Ended(@, "up_to_date") EXCEPT !.requests = @ + asked]
                  ELSE [Ended(@, "raised") EXCEPT !.requests = @ + asked]]
    /\ UNCHANGED <<exit_flag, directory, download_pc>>
    /\ DownloadFrame

\* download_file, line 76: requests.get(url, stream=True)
Get(i) ==
    /\ futures[i].state = "running"
    /\ futures[i].pc = "get"
    /\ futures' = [futures EXCEPT ![i].pc = "open", ![i].requests = @ + 1]
    /\ UNCHANGED <<exit_flag, directory, download_pc>>
    /\ DownloadFrame

\* download_file, line 78: open(file_path, "wb")
Open(i) ==
    /\ futures[i].state = "running"
    /\ futures[i].pc = "open"
    /\ directory' = open_wb(directory, futures[i].file_path)
    /\ futures' = [futures EXCEPT ![i].pc = "iter", ![i].linked = TRUE]
    /\ UNCHANGED <<exit_flag, download_pc>>
    /\ DownloadFrame

\* download_file, lines 87-88: a block arrives and the flag is tested
NextBlock(i) ==
    /\ futures[i].state = "running"
    /\ futures[i].pc = "iter"
    /\ futures[i].left > 0
    /\ futures' = [futures EXCEPT ![i] =
          IF exit_flag THEN [@ EXCEPT !.pc = "remove", !.observed = TRUE]
          ELSE [@ EXCEPT !.pc = "write"]]
    /\ UNCHANGED <<exit_flag, directory, download_pc>>
    /\ DownloadFrame

\* download_file, line 87: the stream has ended, the file is closed
EndOfStream(i) ==
    /\ futures[i].state = "running"
    /\ futures[i].pc = "iter"
    /\ futures[i].left = 0
    /\ futures' = [futures EXCEPT ![i] = Ended(@, "complete")]
    /\ UNCHANGED <<exit_flag, directory, download_pc>>
    /\ DownloadFrame

\* download_file, line 92: f.write(data); the block reaches the file of the
\* directory unless that file was removed since it was opened
WriteBlock(i) ==
    /\ futures[i].state = "running"
    /\ futures[i].pc = "write"
    /\ directory' = IF futures[i].linked
                    THEN [directory EXCEPT ![futures[i].file_path] = @ + 1]
                    ELSE directory
    /\ futures' = [futures EXCEPT ![i].pc = "iter", ![i].left = @ - 1,
                                  ![i].written = @ + 1]
    /\ UNCHANGED <<exit_flag, download_pc>>
    /\ DownloadFrame

\* download_file, lines 89-91: f.close(); os.remove(file_path); return.
\* os.remove raises FileNotFoundError if the path is gone.
RemovePartial(i) ==
    /\ futures[i].state = "running"
    /\ futures[i].pc = "remove"
    /\ IF futures[i].file_path \in DOMAIN directory
       THEN /\ directory' = remove(directory, futures[i].file_path)
            /\ futures' = [j \in Pdfs |->
                  IF j = i THEN [Ended(futures[j], "cancelled") EXCEPT !.linked = FALSE]
                  ELSE IF futures[j].file_path = futures[i].file_path
                       THEN [futures[j] EXCEPT !.linked = FALSE]
                       ELSE futures[j]]
       ELSE /\ directory' = directory
            /\ futures' = [futures EXCEPT ![i] = Ended(@, "raised")]
    /\ UNCHANGED <<exit_flag, download_pc>>
    /\ DownloadFrame

\* lines 76 and 87: a network read raises
RequestFail(i) ==
    /\ futures[i].state = "running"
    /\ futures[i].pc \in {"get", "iter"}
    /\ futures' = [futures EXCEPT ![i] = Ended(@, "raised")]
    /\ UNCHANGED <<exit_flag, directory, download_pc>>
    /\ DownloadFrame

\* the tasks submitted so far
Submitted == 1..(download_pc.next - 1)

\* lines 185-193: as_completed yields a task that has ended, or is exhausted
AsCompleted ==
    /\ download_pc.pc = "as_completed"
    /\ \/ \E i \in Submitted \ download_pc.yielded :
             /\ futures[i].state = "finished"
             /\ download_pc' =
                   IF exit_flag THEN [download_pc EXCEPT !.pc = "after_loop"]
                   ELSE [download_pc EXCEPT !.yielded = @ \cup {i}]
       \/ /\ Submitted \subseteq download_pc.yielded
          /\ download_pc' = [download_pc EXCEPT !.pc = "after_loop"]
    /\ UNCHANGED <<exit_flag, futures, directory>>
    /\ DownloadFrame

\* lines 195-205: with the flag set every task is cancelled (a task that
\* has not started never will) and the pool is shut down
AfterLoop ==
    /\ download_pc.pc = "after_loop"
    /\ futures' = [i \in Pdfs |->
          IF exit_flag /\ futures[i].state = "pending"
          THEN [futures[i] EXCEPT !.state = "cancelled"]
          ELSE futures[i]]
    /\ download_pc' = [download_pc EXCEPT !.pc = "shutdown"]
    /\ UNCHANGED <<exit_flag, directory>>
    /\ DownloadFrame

\* line 171, the end of the with block: shutdown(wait=True) returns when the
\* threads of the pool have ended
Shutdown ==
    /\ download_pc.pc = "shutdown"
    /\ Pending = {}
    /\ Running = {}
    /\ download_pc' = [download_pc EXCEPT !.pc = "returned"]
    /\ UNCHANGED <<exit_flag, futures, directory>>
    /\ DownloadFrame

\* a step of the thread that runs download_docs
MainStep ==
    \/ Submit
    \/ AsCompleted
    \/ AfterLoop
    \/ Shutdown

\* a step of the thread of the pool that runs task i, network reads that
\* return included
WorkerStep(i) ==
    \/ StartTask(i)
    \/ CheckUpdated(i)
    \/ Get(i)
    \/ Open(i)
    \/ NextBlock(i)
    \/ EndOfStream(i)
    \/ WriteBlock(i)
    \/ RemovePartial(i)

NextDownload ==
    \/ SetExitFlag
    \/ MainStep
    \/ \E i \in Pdfs : WorkerStep(i)
    \/ \E i \in Pdfs : RequestFail(i)

SpecDownload == InitDownload /\ [][NextDownload]_vars

\* every thread that can take a step eventually takes one, and every
\* network read eventually returns
SpecDownloadFair ==
    /\ SpecDownload
    /\ WF_vars(MainStep)
    /\ \A i \in Pdfs : WF_vars(WorkerStep(i))

\* C31, first part: a download that has a block in hand when the flag is set
\* does not write it, and once it has seen the flag it writes nothing
C31_StopsBeforeNextBlock ==
    \A i \in Pdfs :
        /\ (futures[i].pc = "iter" /\ exit_flag) => futures'[i].pc # "write"
        /\ futures[i].observed =>
              /\ futures'[i].written = futures[i].written
              /\ futures'[i].observed

\* C31, second part: the step by which download_file returns after it has
\* seen the flag leaves no file at its target path and leaves every other
\* file as it was
C31_RemovesItsOwnFileOnly ==
    \A i \in Pdfs :
        (/\ futures[i].pc = "remove"
         /\ futures'[i].outcome = "cancelled")
        => /\ futures[i].file_path \notin DOMAIN directory'
           /\ \A q \in DOMAIN directory \ {futures[i].file_path} :
                q \in DOMAIN directory' /\ directory'[q] = directory[q]

\* C31: a download in progress when the exit flag becomes set stops before
\* writing the next block and removes its partially downloaded file: when
\* download_file returns after observing the flag no file exists at its target
\* path, and no completed download of another file is removed.
C31_PartialFileRemoved ==
    [][C31_StopsBeforeNextBlock /\ C31_RemovesItsOwnFileOnly]_vars

\* C31, witness: a download has returned after it saw the flag, with a block
\* written before, and its file is gone, while the complete download of
\* another file is still there
C31_CancelledBesideComplete ==
    \E i, j \in Pdfs :
        /\ futures[i].outcome = "cancelled"
        /\ futures[i].written >= 1
        /\ futures[i].file_path \notin DOMAIN directory
        /\ futures[j].outcome = "complete"
        /\ futures[j].file_path # futures[i].file_path
        /\ futures[j].file_path \in DOMAIN directory
        /\ directory[futures[j].file_path] = futures[j].written
        /\ futures[j].written >= 1

\* C32, the queued downloads: a task that starts after the flag was set
\* returns without a request and without touching a file
C32_StartedAfterExitDoesNothing ==
    \A i \in Pdfs :
        futures[i].started_after_exit =>
            /\ futures[i].state = "finished"
            /\ futures[i].outcome = "exit"
            /\ futures[i].requests = 0
            /\ futures[i].written = 0
            /\ ~futures[i].linked

\* C32, the running downloads: with the flag set, the step a download takes
\* when its next block arrives leads to its return
C32_ReturnsAtNextBlock ==
    \A i \in Pdfs :
        /\ (futures[i].pc = "iter" /\ exit_flag /\ futures'[i].pc # "iter")
              => futures'[i].pc \in {"remove", "returned"}
        /\ (futures[i].pc = "remove" /\ futures'[i].pc # "remove")
              => futures'[i].state = "finished"

====
